---- MODULE Spec2Model ----
(***************************************************************************)
(* Verification model of wingedpig/iporg: the main range index             *)
(* (pkg/iporgdb), the build worker pool (pkg/util/workers), the enrichment *)
(* orchestrator (cmd/iporg-build), the RIPE and ARIN bulk indexes         *)
(* (pkg/ripebulk, pkg/arinbulk), the cached RDAP client (pkg/sources/rdap) *)
(* with its response parser, the range-to-CIDR conversion, the aggregator  *)
(* and the store of the iptoasn build (pkg/iptoasn), and the geo split of   *)
(* Mode B (pkg/sources/maxmind).                                           *)
(***************************************************************************)
EXTENDS Integers, Sequences, FiniteSets, TLC

(***************************************************************************)
(* Bounds of the model.                                                    *)
(***************************************************************************)
MaxAddr == 3        \* addresses of the main index are 0..MaxAddr
MaxBits == 2        \* prefix lengths of records are 0..MaxBits
MaxRecords == 3     \* PutRange is explored while fewer range records are stored
MaxWritten == 2     \* the orchestrator's tasks are followed up to this many records
MaxWork == 3        \* work lists of the pool hold 2..MaxWork prefixes
MaxWorkers == 2     \* Config.Workers is 1..MaxWorkers
MaxRipe == 1        \* RIPE addresses are 0..MaxRipe and the one 2^24 after MaxRipe
MaxInetnums == 3    \* a RIPE index holds up to this many inetnums
MaxArin == 2        \* ARIN addresses are 0..MaxArin and the one 2^24 after MaxArin
MaxNets == 3        \* an ARIN index holds up to this many net blocks
MaxRemarks == 2     \* an inetnum carries up to this many remarks
MaxTime == 2        \* the clock of the RDAP cache runs 0..MaxTime
MaxTTL == 2         \* CachedClient.cacheTTL is 1..MaxTTL
WordBits == 4       \* width of the integers of rangeToCIDRsV4, 32 in the program
MaxAggAddr == 3     \* the datasets of the iptoasn build lie within 0..MaxAggAddr
MaxPrefixes == 2    \* a dataset of the iptoasn build holds up to this many prefixes
MaxBuilds == 2      \* the build command runs up to this many times on one database
GeoBits == 2        \* width of the addresses of the geo split
MaxEntities == 2    \* an RDAP response carries up to this many entities

VARIABLES
    store,      \* main index, range namespace: key -> [end, bits, org]
    meta,       \* main index, "meta:" namespace: set of metadata names stored
    closed,     \* DB.closed
    dbClosed,   \* the underlying store handle has been closed
    res,        \* outcome of the last operation on the main index
    pc,         \* position of each goroutine calling into the main index
    job,        \* the record each writer goroutine passes to PutRange
    plan,       \* what checkOverlap decided for each writer
    ret,        \* what each goroutine's call returned
    rlocks,     \* goroutines holding DB.mu for reading
    wlock,      \* DB.mu is held for writing
    wwait,      \* a goroutine is blocked in DB.mu.Lock
    work,       \* the build's work list, sorted by specificity
    workers,    \* Config.Workers of the pool
    submitted,  \* how many tasks the build has handed to Pool.Submit
    tpc,        \* position of each task's goroutine
    sem,        \* tasks holding a slot of Pool.semaphore
    results,    \* Pool.results, the buffered channel
    collected,  \* what Pool.Wait has read so far
    mainPc,     \* position of the goroutine that submits and waits
    resultsClosed, \* Pool.results has been closed
    cancelled,  \* the pool's context is done
    ripeDb,     \* RIPE index: the inetnums stored under their range keys
    match,      \* outcome of the last lookup in the RIPE index
    arinDb,     \* ARIN index: the range keys of the stored net blocks
    arinMatch,  \* outcome of the last lookup in the ARIN index
    picked,     \* what the last enrichment task made of its sources' answers
    resolved,   \* the organisation name the RIPE lookup resolved for its match
    rdapCache,  \* main index, "cache:rdap:" keys: normalized prefix -> CacheEntry
    now,        \* the clock
    cacheTTL,   \* CachedClient.cacheTTL
    call,       \* the lookup of the cached RDAP client that is under way
    ctxDone,    \* the lookup's context is cancelled
    reply,      \* what the last lookup of the cached RDAP client returned
    conv,       \* the call of rangeToCIDRsV4 that is under way
    parsed,     \* the call of the RDAP response parser and its result
    dedup,      \* the call of Aggregator.Deduplicate and its result
    asnStore,   \* the iptoasn store: key -> CanonicalPrefix or index entry
    builds,     \* iptoasn builds run on the store so far
    geo         \* the call of SplitPrefixByGeo and its result

idxVars == <<store, meta, closed, dbClosed, res>>

concVars == <<pc, job, plan, ret, rlocks, wlock, wwait>>

poolVars == <<work, workers, submitted, tpc, sem, results, collected,
              mainPc, resultsClosed, cancelled>>

ripeVars == <<ripeDb, match>>

arinVars == <<arinDb, arinMatch>>

\* the data sources beside the RIPE index
rdapVars == <<rdapCache, now, cacheTTL, call, ctxDone, reply>>

codecVars == <<conv>>

\* the RDAP response parser, the iptoasn aggregator and store, the geo split
fnVars == <<parsed, dedup, asnStore, builds, geo>>

srcVars == <<arinVars, picked, resolved, rdapVars, codecVars, fnVars>>

vars == <<idxVars, concVars, poolVars, ripeVars, srcVars>>

\* what the operations of each component leave alone
notIdx == <<concVars, poolVars, ripeVars, srcVars>>

notConc == <<poolVars, ripeVars, srcVars>>

notPool == <<meta, closed, dbClosed, res, concVars, ripeVars, srcVars>>

notRipe == <<idxVars, concVars, poolVars, srcVars>>

notArin == <<idxVars, concVars, poolVars, ripeVars, picked, resolved, rdapVars,
             codecVars, fnVars>>

notPicked == <<idxVars, concVars, poolVars, ripeVars, arinVars, resolved, rdapVars,
               codecVars, fnVars>>

notResolved == <<idxVars, concVars, poolVars, ripeVars, arinVars, picked, rdapVars,
                 codecVars, fnVars>>

notRdap == <<idxVars, concVars, poolVars, ripeVars, arinVars, picked, resolved,
             codecVars, fnVars>>

notCodec == <<idxVars, concVars, poolVars, ripeVars, arinVars, picked, resolved,
              rdapVars, fnVars>>

notFn == <<idxVars, concVars, poolVars, ripeVars, arinVars, picked, resolved,
           rdapVars, codecVars>>

(***************************************************************************)
(* Keys of the underlying ordered store (pkg/util/ipcodec).                *)
(***************************************************************************)
PrefixRangeV4 == "R4:"
PrefixRangeV6 == "R6:"
PrefixCache == "cache:"
PrefixMeta == "meta:"

\* byte order of the key namespaces: 'R' < 'c' < 'm', '4' < '6'
NsRank(ns) ==
    CASE ns = PrefixRangeV4 -> 1
      [] ns = PrefixRangeV6 -> 2
      [] ns = PrefixCache -> 3
      [] ns = PrefixMeta -> 4

NoKey == [ns |-> "none", ip |-> 0]

FamPrefix(fam) == IF fam = 4 THEN PrefixRangeV4 ELSE PrefixRangeV6

\* "R4:" + big-endian address: byte order of keys = numeric order of addresses
EncodeRangeKey(fam, ip) == [ns |-> FamPrefix(fam), ip |-> ip]

MetaKey(suffix) == [ns |-> PrefixMeta, ip |-> 0]

KeyLess(a, b) ==
    \/ NsRank(a.ns) < NsRank(b.ns)
    \/ a.ns = b.ns /\ a.ip < b.ip

MinKey(S) == CHOOSE x \in S : \A y \in S : ~KeyLess(y, x)
MaxKey(S) == CHOOSE x \in S : \A y \in S : ~KeyLess(x, y)

(***************************************************************************)
(* goleveldb iterator positions over a key set K; NoKey is the invalid     *)
(* position (before the first or after the last key).                      *)
(***************************************************************************)
IterSeek(K, k) ==
    LET S == {x \in K : ~KeyLess(x, k)} IN IF S = {} THEN NoKey ELSE MinKey(S)

IterPrev(K, cur) ==
    LET S == {x \in K : KeyLess(x, cur)} IN IF S = {} THEN NoKey ELSE MaxKey(S)

IterNext(K, cur) ==
    LET S == {x \in K : KeyLess(cur, x)} IN IF S = {} THEN NoKey ELSE MinKey(S)

IterLast(K) == IF K = {} THEN NoKey ELSE MaxKey(K)

\* all keys of the open database, in both namespaces
DbKeys(st, mt) == DOMAIN st \cup {MetaKey(n) : n \in mt}

(***************************************************************************)
(* Records.                                                                *)
(***************************************************************************)
NoRec == [fam |-> 0, start |-> 0, end |-> 0, bits |-> 0, org |-> <<>>]

\* decodeRecord: the start comes from the key, the rest from the value
decodeRecord(k, v) ==
    [fam |-> IF k.ns = PrefixRangeV4 THEN 4 ELSE 6,
     start |-> k.ip, end |-> v.end, bits |-> v.bits, org |-> v.org]

encodeRecord(rec) == [end |-> rec.end, bits |-> rec.bits, org |-> rec.org]

StoredRecords(st) == {decodeRecord(k, st[k]) : k \in DOMAIN st}

IsInRange(ip, start, end) == ip >= start /\ ip <= end

getPrefixLen(rec) == rec.bits

(***************************************************************************)
(* Errors.  model.ErrOverlap is one sentinel wrapped with two messages;    *)
(* the orchestrator tells them apart by the text "is covered by less       *)
(* specific".  A closed goleveldb handle answers NewIterator with an       *)
(* iterator whose Error() is leveldb.ErrClosed.                            *)
(***************************************************************************)
Nil == "nil"
ErrInvalidRange == "invalid IP range"
ErrInvalidIP == "invalid IP address"
ErrNotFound == "IP not found in database"
ErrDatabaseClosed == "database is closed"
ErrOverlapCovered == "overlapping range detected: is covered by less specific"
ErrOverlapConflict == "overlapping range detected: overlaps with"
ErrLevelDBClosed == "leveldb: closed"

(***************************************************************************)
(* PutRange and checkOverlap.                                              *)
(***************************************************************************)
\* the body of the loop of checkOverlap for one existing record
OverlapDecision(newRec, existingRec) ==
    IF newRec.start <= existingRec.end /\ existingRec.start <= newRec.end
    THEN IF existingRec.start = newRec.start /\ existingRec.end = newRec.end
         THEN "update"
         ELSE IF getPrefixLen(newRec) > getPrefixLen(existingRec) THEN "covered"
         ELSE IF getPrefixLen(newRec) < getPrefixLen(existingRec) THEN "replace"
         ELSE "conflict"
    ELSE "next"

\* Seek to the new start, step back one record (or to the last record when
\* the seek ran off the end), then examine at most two records.  When the
\* step back leaves the iterator invalid the loop body never runs.
checkOverlap(st, isClosed, newRec) ==
    LET K == IF isClosed THEN {}
             ELSE {k \in DOMAIN st : k.ns = FamPrefix(newRec.fam)}
        searchKey == EncodeRangeKey(newRec.fam, newRec.start)
        sought == IterSeek(K, searchKey)
        first == IF sought # NoKey THEN IterPrev(K, sought) ELSE IterLast(K)
        d1 == IF first = NoKey THEN "end"
              ELSE OverlapDecision(newRec, decodeRecord(first, st[first]))
        second == IF first # NoKey /\ d1 = "next" THEN IterNext(K, first) ELSE NoKey
        d2 == IF second = NoKey THEN "end"
              ELSE OverlapDecision(newRec, decodeRecord(second, st[second]))
        d == IF d1 = "next" THEN d2 ELSE d1
        at == IF d1 = "next" THEN second ELSE first
    IN  [err |-> CASE d = "covered" -> ErrOverlapCovered
                   [] d = "conflict" -> ErrOverlapConflict
                   [] OTHER -> Nil,
         del |-> IF d = "replace" THEN at ELSE NoKey]

StorePut(st, k, v) == [x \in DOMAIN st \cup {k} |-> IF x = k THEN v ELSE st[x]]

StoreDelete(st, k) == [x \in DOMAIN st \ {k} |-> st[x]]

\* PutRange: validation, checkOverlap (which deletes at most one record),
\* then Put under the start key
PutRangeResult(st, isClosed, rec) ==
    IF rec.start > rec.end THEN [err |-> ErrInvalidRange, store |-> st]
    ELSE LET co == checkOverlap(st, isClosed, rec) IN
         IF co.err # Nil THEN [err |-> co.err, store |-> st]
         ELSE IF isClosed THEN [err |-> ErrDatabaseClosed, store |-> st]
         ELSE [err |-> Nil,
               store |-> StorePut(StoreDelete(st, co.del),
                                  EncodeRangeKey(rec.fam, rec.start),
                                  encodeRecord(rec))]

(***************************************************************************)
(* GetByIP: seek/prev over the whole database.                             *)
(***************************************************************************)
GetByIPAt(st, pos, ip) ==
    LET rec == decodeRecord(pos, st[pos]) IN
    IF IsInRange(ip, rec.start, rec.end)
    THEN [err |-> Nil, rec |-> rec]
    ELSE [err |-> ErrNotFound, rec |-> NoRec]

GetByIP(st, mt, isClosed, fam, ip) ==
    LET notFound == [err |-> ErrNotFound, rec |-> NoRec]
        prefix == FamPrefix(fam)
        K == DbKeys(st, mt)
        searchKey == EncodeRangeKey(fam, ip)
        sought == IterSeek(K, searchKey)
        last == IterLast(K)
        prev == IterPrev(K, sought)
    IN  IF isClosed THEN [err |-> ErrDatabaseClosed, rec |-> NoRec]
        ELSE IF sought = NoKey
        THEN IF last = NoKey THEN notFound
             ELSE IF last.ns # prefix THEN notFound
             ELSE GetByIPAt(st, last, ip)
        ELSE IF sought.ns # prefix
        THEN IF prev = NoKey THEN notFound
             ELSE IF prev.ns # prefix THEN notFound
             ELSE GetByIPAt(st, prev, ip)
        ELSE IF sought.ip = ip THEN GetByIPAt(st, sought, ip)
        ELSE IF sought.ip > ip
        THEN IF prev = NoKey THEN notFound
             ELSE IF prev.ns # prefix THEN notFound
             ELSE GetByIPAt(st, prev, ip)
        ELSE GetByIPAt(st, sought, ip)

(***************************************************************************)
(* Operations of the main index, one call per step.                        *)
(***************************************************************************)
Families == {4, 6}
Addrs == 0..MaxAddr
OrgNames == {<<"o">>}
MetaNames == {"schema"}

\* records a caller may hand to PutRange; IPv6 records are kept to the
\* single address 0 so that both namespaces are populated
PutInputs ==
    [fam : {4}, start : Addrs, end : Addrs, bits : 0..MaxBits, org : OrgNames]
    \cup [fam : {6}, start : {0}, end : {0}, bits : {MaxBits}, org : OrgNames]

NoVal == "none"

Result(op, err, val) == [op |-> op, err |-> err, val |-> val]

EmptyStore == [k \in {} |-> NoVal]

\* the goroutines of the concurrent specification, none of them started
Writers == {"w1", "w2"}
Closer == "closer"
Threads == Writers \cup {Closer}
NoPlan == [err |-> Nil, del |-> NoKey]

ConcIdle ==
    /\ pc = [t \in Threads |-> "idle"]
    /\ job = [t \in Writers |-> NoRec]
    /\ plan = [t \in Writers |-> NoPlan]
    /\ ret = [t \in Threads |-> NoVal]
    /\ rlocks = {}
    /\ wlock = FALSE
    /\ wwait = FALSE

\* no pool has been created
PoolIdle ==
    /\ work = <<>>
    /\ workers = 1
    /\ submitted = 0
    /\ tpc = <<>>
    /\ sem = {}
    /\ results = <<>>
    /\ collected = <<>>
    /\ mainPc = "none"
    /\ resultsClosed = FALSE
    /\ cancelled = FALSE

NoMatch == [op |-> "none", qs |-> 0, qe |-> 0,
            err |-> Nil, found |-> FALSE, start |-> 0, end |-> 0]

\* no RIPE index has been built
RipeIdle ==
    /\ ripeDb = {}
    /\ match = NoMatch

\* no ARIN index has been built
ArinIdle ==
    /\ arinDb = {}
    /\ arinMatch = NoMatch

\* no enrichment task has chosen among its sources
PickIdle == picked = [mode |-> "none"]

\* no lookup of the RDAP client is under way and nothing is cached
RdapIdle ==
    /\ rdapCache = <<>>
    /\ now = 0
    /\ cacheTTL = 1
    /\ call = [pc |-> "idle"]
    /\ ctxDone = FALSE
    /\ reply = [op |-> "none"]

\* no range is being converted to CIDRs
CodecIdle == conv = [pc |-> "idle"]

\* the response parser, the aggregator and the geo split are not in use and
\* the iptoasn store is empty
FnIdle ==
    /\ parsed = [pc |-> "idle"]
    /\ dedup = [pc |-> "idle"]
    /\ asnStore = <<>>
    /\ builds = 0
    /\ geo = [pc |-> "idle"]

\* none of the other data sources is in use
SourcesIdle ==
    /\ ArinIdle /\ PickIdle /\ resolved = [op |-> "none"] /\ RdapIdle /\ CodecIdle
    /\ FnIdle

\* the main index as Open leaves it
IndexOpen ==
    /\ store = EmptyStore
    /\ meta = {}
    /\ closed = FALSE
    /\ dbClosed = FALSE
    /\ res = Result("Open", Nil, NoVal)

InitIndex ==
    /\ IndexOpen
    /\ ConcIdle
    /\ PoolIdle
    /\ RipeIdle
    /\ SourcesIdle

PutRange(rec) ==
    /\ Cardinality(DOMAIN store) < MaxRecords
    /\ LET r == PutRangeResult(store, closed, rec) IN
         /\ store' = r.store
         /\ res' = Result("PutRange", r.err, NoVal)
    /\ UNCHANGED <<meta, closed, dbClosed, notIdx>>

LookupIP(fam, ip) ==
    /\ LET r == GetByIP(store, meta, closed, fam, ip) IN
         res' = Result("GetByIP", r.err, r.rec)
    /\ UNCHANGED <<store, meta, closed, dbClosed, notIdx>>

\* DB.Get, reached through GetMetadata
Get(name) ==
    /\ res' = IF closed THEN Result("Get", ErrDatabaseClosed, NoVal)
              ELSE Result("Get", Nil, IF name \in meta THEN "value" ELSE "")
    /\ UNCHANGED <<store, meta, closed, dbClosed, notIdx>>

\* DB.Put, reached through SetMetadata
Put(name) ==
    /\ res' = Result("Put", IF closed THEN ErrDatabaseClosed ELSE Nil, NoVal)
    /\ meta' = IF closed THEN meta ELSE meta \cup {name}
    /\ UNCHANGED <<store, closed, dbClosed, notIdx>>

\* DB.Delete of a metadata key
Delete(name) ==
    /\ res' = Result("Delete", IF closed THEN ErrDatabaseClosed ELSE Nil, NoVal)
    /\ meta' = IF closed THEN meta ELSE meta \ {name}
    /\ UNCHANGED <<store, closed, dbClosed, notIdx>>

RECURSIVE ApplyBatch(_, _)
ApplyBatch(mt, ops) ==
    IF ops = <<>> THEN mt
    ELSE ApplyBatch(IF Head(ops).delete THEN mt \ {Head(ops).key}
                    ELSE mt \cup {Head(ops).key}, Tail(ops))

BatchOps == [key : MetaNames, delete : BOOLEAN]
Batches == {<<>>} \cup {<<a>> : a \in BatchOps} \cup {<<a, b>> : a, b \in BatchOps}

WriteBatch(ops) ==
    /\ res' = Result("WriteBatch", IF closed THEN ErrDatabaseClosed ELSE Nil, NoVal)
    /\ meta' = IF closed THEN meta ELSE ApplyBatch(meta, ops)
    /\ UNCHANGED <<store, closed, dbClosed, notIdx>>

\* DB.NewIterator takes no look at d.closed: a closed handle yields the
\* store's own empty iterator carrying leveldb.ErrClosed
IterError(isClosed) == IF isClosed THEN ErrLevelDBClosed ELSE Nil

NewIterator ==
    /\ res' = Result("NewIterator", IterError(dbClosed), NoVal)
    /\ UNCHANGED <<store, meta, closed, dbClosed, notIdx>>

IterateRanges(v4) ==
    /\ res' = Result("IterateRanges", IterError(dbClosed), NoVal)
    /\ UNCHANGED <<store, meta, closed, dbClosed, notIdx>>

CountRanges ==
    /\ res' = IF dbClosed THEN Result("CountRanges", ErrLevelDBClosed, <<0, 0>>)
              ELSE Result("CountRanges", Nil,
                          <<Cardinality({k \in DOMAIN store : k.ns = PrefixRangeV4}),
                            Cardinality({k \in DOMAIN store : k.ns = PrefixRangeV6})>>)
    /\ UNCHANGED <<store, meta, closed, dbClosed, notIdx>>

IsClosed ==
    /\ res' = Result("IsClosed", Nil, closed)
    /\ UNCHANGED <<store, meta, closed, dbClosed, notIdx>>

Close ==
    /\ res' = Result("Close", IF closed THEN ErrDatabaseClosed ELSE Nil, NoVal)
    /\ closed' = TRUE
    /\ dbClosed' = TRUE
    /\ UNCHANGED <<store, meta, notIdx>>

NextIndex ==
    \/ \E rec \in PutInputs : PutRange(rec)
    \/ \E fam \in Families, ip \in Addrs : LookupIP(fam, ip)
    \/ \E name \in MetaNames : Get(name)
    \/ \E name \in MetaNames : Put(name)
    \/ \E name \in MetaNames : Delete(name)
    \/ \E ops \in Batches : WriteBatch(ops)
    \/ NewIterator
    \/ \E v4 \in BOOLEAN : IterateRanges(v4)
    \/ CountRanges
    \/ IsClosed
    \/ Close

Spec == InitIndex /\ [][NextIndex]_vars

(***************************************************************************)
(* Goroutines calling into one DB.  DB.mu is a sync.RWMutex: Put, Delete   *)
(* and NewIterator hold it for reading, Close holds it for writing, and a  *)
(* goroutine blocked in Lock keeps new readers out.  PutRange itself takes *)
(* no lock: its scan, its Delete and its Put are three separate critical   *)
(* sections.  The scan reads the snapshot the iterator was created on.     *)
(***************************************************************************)
ConcInputs == {r \in PutInputs : r.start <= r.end}

InWrite == {"deleting", "putting"}

\* sync.RWMutex.RLock returns when no writer holds or awaits the lock
CanRLock(writer, waiting) == ~writer /\ ~waiting

\* sync.RWMutex.Lock returns when nobody holds the lock
CanLock(readers, writer) == readers = {} /\ ~writer

InitConc ==
    /\ IndexOpen
    /\ ConcIdle
    /\ PoolIdle
    /\ RipeIdle
    /\ SourcesIdle

\* PutRange entered: validation of the record
StartPutRange(t, rec) ==
    /\ pc[t] = "idle"
    /\ job' = [job EXCEPT ![t] = rec]
    /\ IF rec.start > rec.end
       THEN /\ pc' = [pc EXCEPT ![t] = "done"]
            /\ ret' = [ret EXCEPT ![t] = ErrInvalidRange]
       ELSE /\ pc' = [pc EXCEPT ![t] = "scan"]
            /\ ret' = ret
    /\ UNCHANGED <<idxVars, plan, rlocks, wlock, wwait, notConc>>

\* checkOverlap up to its decision: NewIterator under the read lock, then
\* the seek/prev scan on the iterator's snapshot
ScanOverlap(t) ==
    /\ pc[t] = "scan"
    /\ CanRLock(wlock, wwait)
    /\ LET co == checkOverlap(store, dbClosed, job[t]) IN
         /\ plan' = [plan EXCEPT ![t] = co]
         /\ IF co.err # Nil
            THEN /\ pc' = [pc EXCEPT ![t] = "done"]
                 /\ ret' = [ret EXCEPT ![t] = co.err]
            ELSE /\ pc' = [pc EXCEPT ![t] = IF co.del # NoKey THEN "delete" ELSE "put"]
                 /\ ret' = ret
    /\ UNCHANGED <<idxVars, job, rlocks, wlock, wwait, notConc>>

\* DB.Delete up to the check of d.closed, the read lock taken
DeleteRLock(t) ==
    /\ pc[t] = "delete"
    /\ CanRLock(wlock, wwait)
    /\ IF closed
       THEN /\ pc' = [pc EXCEPT ![t] = "done"]
            /\ ret' = [ret EXCEPT ![t] = ErrDatabaseClosed]
            /\ rlocks' = rlocks
       ELSE /\ pc' = [pc EXCEPT ![t] = "deleting"]
            /\ ret' = ret
            /\ rlocks' = rlocks \cup {t}
    /\ UNCHANGED <<idxVars, job, plan, wlock, wwait, notConc>>

\* DB.Put up to the check of d.closed, the read lock taken
PutRLock(t) ==
    /\ pc[t] = "put"
    /\ CanRLock(wlock, wwait)
    /\ IF closed
       THEN /\ pc' = [pc EXCEPT ![t] = "done"]
            /\ ret' = [ret EXCEPT ![t] = ErrDatabaseClosed]
            /\ rlocks' = rlocks
       ELSE /\ pc' = [pc EXCEPT ![t] = "putting"]
            /\ ret' = ret
            /\ rlocks' = rlocks \cup {t}
    /\ UNCHANGED <<idxVars, job, plan, wlock, wwait, notConc>>

\* d.db.Delete of the replaced record, then the deferred RUnlock
DeleteApply(t) ==
    /\ pc[t] = "deleting"
    /\ rlocks' = rlocks \ {t}
    /\ IF dbClosed
       THEN /\ store' = store
            /\ pc' = [pc EXCEPT ![t] = "done"]
            /\ ret' = [ret EXCEPT ![t] = ErrLevelDBClosed]
       ELSE /\ store' = StoreDelete(store, plan[t].del)
            /\ pc' = [pc EXCEPT ![t] = "put"]
            /\ ret' = ret
    /\ UNCHANGED <<meta, closed, dbClosed, res, job, plan, wlock, wwait, notConc>>

\* d.db.Put of the new record, then the deferred RUnlock
PutApply(t) ==
    /\ pc[t] = "putting"
    /\ rlocks' = rlocks \ {t}
    /\ pc' = [pc EXCEPT ![t] = "done"]
    /\ IF dbClosed
       THEN /\ store' = store
            /\ ret' = [ret EXCEPT ![t] = ErrLevelDBClosed]
       ELSE /\ store' = StorePut(store, EncodeRangeKey(job[t].fam, job[t].start),
                                 encodeRecord(job[t]))
            /\ ret' = [ret EXCEPT ![t] = Nil]
    /\ UNCHANGED <<meta, closed, dbClosed, res, job, plan, wlock, wwait, notConc>>

\* Close calls d.mu.Lock and blocks
CloseLock ==
    /\ pc[Closer] = "idle"
    /\ pc' = [pc EXCEPT ![Closer] = "locking"]
    /\ wwait' = TRUE
    /\ UNCHANGED <<idxVars, job, plan, ret, rlocks, wlock, notConc>>

\* d.mu.Lock returns
CloseAcquire ==
    /\ pc[Closer] = "locking"
    /\ CanLock(rlocks, wlock)
    /\ pc' = [pc EXCEPT ![Closer] = "closing"]
    /\ wlock' = TRUE
    /\ wwait' = FALSE
    /\ UNCHANGED <<idxVars, job, plan, ret, rlocks, notConc>>

\* the body of Close and the deferred Unlock
CloseBody ==
    /\ pc[Closer] = "closing"
    /\ pc' = [pc EXCEPT ![Closer] = "done"]
    /\ ret' = [ret EXCEPT ![Closer] = IF closed THEN ErrDatabaseClosed ELSE Nil]
    /\ closed' = TRUE
    /\ dbClosed' = TRUE
    /\ wlock' = FALSE
    /\ UNCHANGED <<store, meta, res, job, plan, rlocks, wwait, notConc>>

NextConc ==
    \/ \E t \in Writers, rec \in ConcInputs : StartPutRange(t, rec)
    \/ \E t \in Writers : ScanOverlap(t)
    \/ \E t \in Writers : DeleteRLock(t)
    \/ \E t \in Writers : DeleteApply(t)
    \/ \E t \in Writers : PutRLock(t)
    \/ \E t \in Writers : PutApply(t)
    \/ CloseLock
    \/ CloseAcquire
    \/ CloseBody

SpecConc == InitConc /\ [][NextConc]_vars

(***************************************************************************)
(* The orchestrator's enrichment of one prefix (Mode A) or one block       *)
(* (Mode B).  Names are sequences of characters so that CleanOrgName acts  *)
(* on them as the code does.  The model's IPv4 addresses are MaxBits wide. *)
(***************************************************************************)
AddrBits == MaxBits

Pow2(n) == 2 ^ n

\* announced prefixes as they arrive, host bits possibly set
PrefixInputs == [fam : {4}, base : 0..(Pow2(AddrBits) - 1), bits : 0..AddrBits]

NormalizePrefix(p) ==
    [p EXCEPT !.base = (p.base \div Pow2(AddrBits - p.bits)) * Pow2(AddrBits - p.bits)]

Prefixes == {NormalizePrefix(p) : p \in PrefixInputs}

CIDRToRange(p) ==
    LET size == Pow2(AddrBits - p.bits)
        first == (p.base \div size) * size
    IN  [start |-> first, end |-> first + size - 1]

RECURSIVE TrimLeft(_, _)
TrimLeft(name, cutset) ==
    IF name # <<>> /\ Head(name) \in cutset THEN TrimLeft(Tail(name), cutset) ELSE name

RECURSIVE TrimRight(_, _)
TrimRight(name, cutset) ==
    IF name # <<>> /\ name[Len(name)] \in cutset
    THEN TrimRight(SubSeq(name, 1, Len(name) - 1), cutset)
    ELSE name

Trim(name, cutset) == TrimRight(TrimLeft(name, cutset), cutset)

\* strings.Join(strings.Fields(name), " ")
RECURSIVE JoinFields(_)
JoinFields(name) ==
    LET t == Trim(name, {" "}) IN
    IF t = <<>> THEN <<>>
    ELSE IF Len(t) >= 2 /\ t[2] = " "
    THEN <<Head(t), " ">> \o JoinFields(Tail(t))
    ELSE <<Head(t)>> \o JoinFields(Tail(t))

CleanOrgName(name) == JoinFields(Trim(Trim(name, {" "}), {"\"", "'"}))

\* what the sources answer for one representative address
NilOrg == [nil |-> TRUE, name |-> <<>>]
OrgOf(name) == [nil |-> FALSE, name |-> name]

\* ASNInfo: an error with the empty name, or the organisation MaxMind holds
ASNOutcomes == {[err |-> TRUE, name |-> <<>>], [err |-> FALSE, name |-> <<"a">>]}

\* tryRIPEBulkLookup: nil or a non-placeholder match
RIPEOutcomes == {NilOrg, OrgOf(<<" ", "o">>)}

\* OrgForPrefix / OrgForIP: an error, or an organisation whose name ParseOrg
\* found non-empty
RDAPOutcomes == {[err |-> TRUE, org |-> NilOrg]}
                \cup {[err |-> FALSE, org |-> OrgOf(n)] : n \in {<<"o">>, <<"'">>}}

EnrichOutcomes == [asn : ASNOutcomes, ripe : RIPEOutcomes, rdap : RDAPOutcomes]

\* tryRIPEBulkLookup / tryRIPEBulkLookupPrefix: IPv4 only
RipeBulkOrg(fam, out) == IF fam = 4 THEN out.ripe ELSE NilOrg

\* rec.OrgName, rec.RIR and rec.SourceRole as the Mode A task leaves them
\* before the write; the RDAP answer is one of the ARIN service, role registrant
ModeASelect(fam, out) ==
    LET asnName == out.asn.name
        rdapOrg == RipeBulkOrg(fam, out)
        rec == IF ~rdapOrg.nil
               THEN [org |-> CleanOrgName(rdapOrg.name), rir |-> "RIPE", role |-> "ripe_bulk"]
               ELSE IF out.rdap.err
               THEN [org |-> asnName, rir |-> "UNKNOWN", role |-> "asn_fallback"]
               ELSE [org |-> CleanOrgName(out.rdap.org.name), rir |-> "ARIN",
                     role |-> "registrant"]
    IN  IF rec.org = <<>>
        THEN [rec EXCEPT !.org = asnName, !.role = "asn_fallback"]
        ELSE rec

ModeAOrgName(out) == ModeASelect(4, out).org

\* the record the Mode A task hands to PutRange
ModeARecord(prefix, out) ==
    LET normalized == NormalizePrefix(prefix)
        rng == CIDRToRange(normalized)
    IN  [fam |-> normalized.fam, start |-> rng.start, end |-> rng.end,
         bits |-> normalized.bits, org |-> ModeAOrgName(out)]

\* rec.OrgName, rec.RIR and rec.SourceRole as processBlock leaves them before
\* the write
ModeBSelect(fam, out) ==
    LET asnName == out.asn.name
        bulk == RipeBulkOrg(fam, out)
        rdapOrg == IF ~bulk.nil THEN bulk
                   ELSE IF out.rdap.err THEN NilOrg ELSE out.rdap.org
        rec == IF ~rdapOrg.nil
               THEN [org |-> CleanOrgName(rdapOrg.name),
                     rir |-> IF ~bulk.nil THEN "RIPE" ELSE "ARIN",
                     role |-> IF ~bulk.nil THEN "ripe_bulk" ELSE "registrant"]
               ELSE [org |-> asnName, rir |-> "UNKNOWN", role |-> "asn_fallback"]
    IN  IF rec.org = <<>> THEN [rec EXCEPT !.org = asnName] ELSE rec

ModeBOrgName(out) == ModeBSelect(4, out).org

\* the record processBlock hands to PutRange: the block's range under the
\* announced prefix
BlockRecord(block, originalPrefix, out) ==
    [fam |-> block.fam, start |-> block.base,
     end |-> block.base + Pow2(AddrBits - block.bits) - 1,
     bits |-> originalPrefix.bits, org |-> ModeBOrgName(out)]

\* SplitPrefixByGeo: the prefix itself or its two halves
BlockSplits(p) ==
    {<<p>>} \cup
    IF p.bits < AddrBits
    THEN {<<[p EXCEPT !.bits = p.bits + 1],
            [p EXCEPT !.bits = p.bits + 1, !.base = p.base + Pow2(AddrBits - p.bits - 1)]>>}
    ELSE {}

\* the loop of the Mode B task over the blocks; a failed write is logged and
\* the loop goes on
RECURSIVE ProcessBlocks(_, _, _, _, _)
ProcessBlocks(st, isClosed, originalPrefix, blocks, outs) ==
    IF blocks = <<>> THEN st
    ELSE ProcessBlocks(
            PutRangeResult(st, isClosed,
                           BlockRecord(Head(blocks), originalPrefix, Head(outs))).store,
            isClosed, originalPrefix, Tail(blocks), Tail(outs))

InitEnrich ==
    /\ IndexOpen
    /\ ConcIdle
    /\ PoolIdle
    /\ RipeIdle
    /\ SourcesIdle

\* one task of enrichAndWriteModeA
ModeATask(prefix, out) ==
    /\ Cardinality(DOMAIN store) < MaxWritten
    /\ LET rec == ModeARecord(prefix, out)
           r == PutRangeResult(store, closed, rec)
       IN  /\ store' = r.store
           /\ res' = Result("ModeA", r.err, rec)
    /\ UNCHANGED <<meta, closed, dbClosed, notIdx>>

\* one task of enrichAndWriteModeB
ModeBTask(prefix, blocks, outs) ==
    /\ Cardinality(DOMAIN store) + Len(blocks) <= MaxWritten
    /\ store' = ProcessBlocks(store, closed, NormalizePrefix(prefix), blocks, outs)
    /\ res' = Result("ModeB", Nil, NoVal)
    /\ UNCHANGED <<meta, closed, dbClosed, notIdx>>

NextEnrich ==
    \/ \E prefix \in PrefixInputs, out \in EnrichOutcomes : ModeATask(prefix, out)
    \/ \E prefix \in PrefixInputs :
         \E blocks \in BlockSplits(NormalizePrefix(prefix)) :
           \E outs \in [1..Len(blocks) -> EnrichOutcomes] :
             ModeBTask(prefix, blocks, outs)

SpecEnrich == InitEnrich /\ [][NextEnrich]_vars

(***************************************************************************)
(* The sources of one enrichment task.  An ARIN bulk index may be          *)
(* configured beside the RIPE one (Builder.arinBulkDB); the answer its     *)
(* lookup would give is part of the task's inputs.                         *)
(***************************************************************************)
\* Builder.arinBulkDB and what its LookupIP / LookupPrefix answers: no match,
\* or a match whose OrgName buildMatch left empty or set
ArinOutcomes == [configured : BOOLEAN, match : {NilOrg, OrgOf(<<>>), OrgOf(<<"n">>)}]

\* tryARINBulkLookup / tryARINBulkLookupPrefix
tryARINBulkLookup(fam, arin) ==
    IF ~arin.configured \/ fam # 4 \/ arin.match.nil
    THEN [nil |-> TRUE, name |-> <<>>, rir |-> "", role |-> ""]
    ELSE [nil |-> FALSE, name |-> arin.match.name, rir |-> "ARIN", role |-> "arin_bulk"]

SourceOutcomes == [asn : ASNOutcomes, ripe : RIPEOutcomes, rdap : RDAPOutcomes,
                   arin : ArinOutcomes]

InitSources ==
    /\ IndexOpen
    /\ ConcIdle
    /\ PoolIdle
    /\ RipeIdle
    /\ SourcesIdle

\* the enrichment steps of one task of enrichAndWriteModeA
SelectModeA(fam, out) ==
    /\ LET rec == ModeASelect(fam, out) IN
         picked' = [mode |-> "A", fam |-> fam, out |-> out,
                    org |-> rec.org, rir |-> rec.rir, role |-> rec.role]
    /\ UNCHANGED notPicked

\* the enrichment steps of processBlock
SelectModeB(fam, out) ==
    /\ LET rec == ModeBSelect(fam, out) IN
         picked' = [mode |-> "B", fam |-> fam, out |-> out,
                    org |-> rec.org, rir |-> rec.rir, role |-> rec.role]
    /\ UNCHANGED notPicked

NextSources ==
    \/ \E fam \in Families, out \in SourceOutcomes : SelectModeA(fam, out)
    \/ \E fam \in Families, out \in SourceOutcomes : SelectModeB(fam, out)

SpecSources == InitSources /\ [][NextSources]_vars

(***************************************************************************)
(* The worker pool running the Mode A tasks of one build.  Submit starts   *)
(* one goroutine per task; the goroutines contend for Pool.semaphore, a    *)
(* channel of capacity Workers, and send their result on Pool.results, a   *)
(* channel of capacity 2 * Workers.  Wait closes the results channel once  *)
(* every goroutine has returned and reads it until it is drained.          *)
(***************************************************************************)
ErrCanceled == "context canceled"

\* the order of sortPrefixesBySpecificity: prefix length, then the prefix
PrefixLess(a, b) == a.bits < b.bits \/ (a.bits = b.bits /\ a.base < b.base)

RECURSIVE sortPrefixesBySpecificity(_)
sortPrefixesBySpecificity(S) ==
    IF S = {} THEN <<>>
    ELSE LET m == CHOOSE x \in S : \A y \in S \ {x} : PrefixLess(x, y)
         IN  <<m>> \o sortPrefixesBySpecificity(S \ {m})

\* the pool's runs take their prefixes among the least specific ones
PoolPrefixes ==
    LET sorted == sortPrefixesBySpecificity(Prefixes) IN
    {sorted[i] : i \in {k \in DOMAIN sorted : k <= MaxWork + 1}}

WorkSets == {S \in SUBSET PoolPrefixes : Cardinality(S) >= 2 /\ Cardinality(S) <= MaxWork}

TaskIds == 1..MaxWork

\* in the pool's runs every source answers: the RIPE bulk index has the prefix
PoolOutcomes == {[asn |-> [err |-> FALSE, name |-> <<"a">>],
                  ripe |-> OrgOf(<<"o">>),
                  rdap |-> [err |-> TRUE, org |-> NilOrg]]}

\* enrichAndWrite has sorted the prefixes and NewPool has returned
InitPool ==
    /\ IndexOpen
    /\ ConcIdle
    /\ RipeIdle
    /\ SourcesIdle
    /\ work \in {sortPrefixesBySpecificity(S) : S \in WorkSets}
    /\ workers \in 1..MaxWorkers
    /\ submitted = 0
    /\ tpc = [i \in 1..Len(work) |-> "none"]
    /\ sem = {}
    /\ results = <<>>
    /\ collected = <<>>
    /\ mainPc = "submit"
    /\ resultsClosed = FALSE
    /\ cancelled = FALSE

\* Pool.Submit: wg.Add and the go statement
Submit ==
    /\ mainPc = "submit"
    /\ submitted < Len(work)
    /\ submitted' = submitted + 1
    /\ tpc' = [tpc EXCEPT ![submitted + 1] = "acquire"]
    /\ UNCHANGED <<store, work, workers, sem, results, collected, mainPc,
                   resultsClosed, cancelled, notPool>>

\* a semaphore that admits a sender whatever it holds
AcquireUnbounded(i) ==
    /\ i \in DOMAIN tpc
    /\ tpc[i] = "acquire"
    /\ sem' = sem \cup {i}
    /\ tpc' = [tpc EXCEPT ![i] = "run"]
    /\ UNCHANGED <<store, work, workers, submitted, results, collected, mainPc,
                   resultsClosed, cancelled, notPool>>

\* the select of the task's goroutine takes the semaphore
Acquire(i) ==
    /\ i \in DOMAIN tpc
    /\ tpc[i] = "acquire"
    /\ Cardinality(sem) < workers
    /\ sem' = sem \cup {i}
    /\ tpc' = [tpc EXCEPT ![i] = "run"]
    /\ UNCHANGED <<store, work, workers, submitted, results, collected, mainPc,
                   resultsClosed, cancelled, notPool>>

\* the select of the task's goroutine takes ctx.Done
AcquireCancelled(i) ==
    /\ i \in DOMAIN tpc
    /\ tpc[i] = "acquire"
    /\ cancelled
    /\ tpc' = [tpc EXCEPT ![i] = "abort"]
    /\ UNCHANGED <<store, work, workers, submitted, sem, results, collected,
                   mainPc, resultsClosed, cancelled, notPool>>

\* the send of the context's error, then wg.Done
SendAbort(i) ==
    /\ i \in DOMAIN tpc
    /\ tpc[i] = "abort"
    /\ Len(results) < 2 * workers
    /\ results' = Append(results, [index |-> i, err |-> ErrCanceled])
    /\ tpc' = [tpc EXCEPT ![i] = "done"]
    /\ UNCHANGED <<store, work, workers, submitted, sem, collected, mainPc,
                   resultsClosed, cancelled, notPool>>

\* the task itself: enrichment of the prefix and PutRange; it returns nil
\* whatever the write answered
RunTask(i, out) ==
    /\ i \in DOMAIN tpc
    /\ tpc[i] = "run"
    /\ store' = PutRangeResult(store, closed, ModeARecord(work[i], out)).store
    /\ tpc' = [tpc EXCEPT ![i] = "send"]
    /\ UNCHANGED <<work, workers, submitted, sem, results, collected, mainPc,
                   resultsClosed, cancelled, notPool>>

\* a goroutine that returns without sending its result
DropResult(i) ==
    /\ i \in DOMAIN tpc
    /\ tpc[i] = "send"
    /\ sem' = sem \ {i}
    /\ tpc' = [tpc EXCEPT ![i] = "done"]
    /\ UNCHANGED <<store, work, workers, submitted, results, collected, mainPc,
                   resultsClosed, cancelled, notPool>>

\* the send of the task's result, the deferred release of the semaphore and
\* wg.Done
SendResult(i) ==
    /\ i \in DOMAIN tpc
    /\ tpc[i] = "send"
    /\ Len(results) < 2 * workers
    /\ results' = Append(results, [index |-> i, err |-> Nil])
    /\ sem' = sem \ {i}
    /\ tpc' = [tpc EXCEPT ![i] = "done"]
    /\ UNCHANGED <<store, work, workers, submitted, collected, mainPc,
                   resultsClosed, cancelled, notPool>>

\* the build calls Pool.Wait after its last Submit
CallWait ==
    /\ mainPc = "submit"
    /\ submitted = Len(work)
    /\ mainPc' = "wait"
    /\ UNCHANGED <<store, work, workers, submitted, tpc, sem, results, collected,
                   resultsClosed, cancelled, notPool>>

\* Wait's goroutine: wg.Wait has returned, close(p.results)
CloseResults ==
    /\ mainPc = "wait"
    /\ ~resultsClosed
    /\ \A i \in DOMAIN tpc : tpc[i] = "done"
    /\ resultsClosed' = TRUE
    /\ UNCHANGED <<store, work, workers, submitted, tpc, sem, results, collected,
                   mainPc, cancelled, notPool>>

\* one iteration of Wait's range over p.results
Collect ==
    /\ mainPc = "wait"
    /\ results # <<>>
    /\ collected' = Append(collected, Head(results))
    /\ results' = Tail(results)
    /\ UNCHANGED <<store, work, workers, submitted, tpc, sem, mainPc,
                   resultsClosed, cancelled, notPool>>

\* the range ends on the closed, drained channel and Wait returns
WaitReturn ==
    /\ mainPc = "wait"
    /\ resultsClosed
    /\ results = <<>>
    /\ mainPc' = "done"
    /\ UNCHANGED <<store, work, workers, submitted, tpc, sem, results, collected,
                   resultsClosed, cancelled, notPool>>

\* Pool.Stop, or the build's context being cancelled
Stop ==
    /\ ~cancelled
    /\ cancelled' = TRUE
    /\ UNCHANGED <<store, work, workers, submitted, tpc, sem, results, collected,
                   mainPc, resultsClosed, notPool>>

NextPool ==
    \/ Submit
    \/ \E i \in TaskIds : Acquire(i)
    \/ \E i \in TaskIds : AcquireCancelled(i)
    \/ \E i \in TaskIds : SendAbort(i)
    \/ \E i \in TaskIds, out \in PoolOutcomes : RunTask(i, out)
    \/ \E i \in TaskIds : SendResult(i)
    \/ CallWait
    \/ CloseResults
    \/ Collect
    \/ WaitReturn
    \/ Stop

SpecPool == InitPool /\ [][NextPool]_vars

\* the steps of the build and of the tasks' goroutines around the task
\* itself; Stop is the caller's choice and the task's own running time is
\* the task's
PoolProgress ==
    \/ Submit
    \/ \E i \in TaskIds : Acquire(i)
    \/ \E i \in TaskIds : AcquireCancelled(i)
    \/ \E i \in TaskIds : SendAbort(i)
    \/ \E i \in TaskIds : SendResult(i)
    \/ CallWait
    \/ CloseResults
    \/ Collect
    \/ WaitReturn

\* the scheduler runs a goroutine that can take a step
SpecPoolLive == SpecPool /\ WF_vars(PoolProgress)

(***************************************************************************)
(* The RIPE bulk index.  Range keys are "R4:" + start + end, so the keys   *)
(* of the range namespace are ordered by start, then by end.  The index is *)
(* built once and then only read.                                          *)
(***************************************************************************)
maxBackwardScan == 10000

earlyExitDistance == 16777216

forwardSteps == 5

RipeErrNotFound == "no matching inetnum found"

PlaceholderNetname == "NON-RIPE-NCC-MANAGED-ADDRESS-BLOCK"

RipeAddrs == (0..MaxRipe) \cup {earlyExitDistance + MaxRipe}

Netnames == {"NET", PlaceholderNetname}

Inetnums == {i \in [start : RipeAddrs, end : RipeAddrs, netname : Netnames] :
               i.start <= i.end}

makeRangeKey(startIP, endIP) == <<startIP, endIP>>

extractStartFromKey(key) == key[1]

NoRipeKey == <<-1, -1>>

RipeKeyLess(a, b) == a[1] < b[1] \/ (a[1] = b[1] /\ a[2] < b[2])

RipeMin(K) == CHOOSE k \in K : \A x \in K \ {k} : RipeKeyLess(k, x)

RipeMax(K) == CHOOSE k \in K : \A x \in K \ {k} : RipeKeyLess(x, k)

\* the iterator over the range namespace; NoRipeKey is the invalid position
RipeSeek(K, key) ==
    LET S == {k \in K : ~RipeKeyLess(k, key)} IN
    IF S = {} THEN NoRipeKey ELSE RipeMin(S)

RipePrev(K, cur) ==
    LET S == {k \in K : RipeKeyLess(k, cur)} IN
    IF cur = NoRipeKey \/ S = {} THEN NoRipeKey ELSE RipeMax(S)

RipeNext(K, cur) ==
    LET S == {k \in K : RipeKeyLess(cur, k)} IN
    IF cur = NoRipeKey \/ S = {} THEN NoRipeKey ELSE RipeMin(S)

RipeLast(K) == IF K = {} THEN NoRipeKey ELSE RipeMax(K)

\* the value stored under a key, unmarshalled
InetAt(db, key) == [start |-> key[1], end |-> key[2], netname |-> db[key].netname]

\* BuildDatabase: every inetnum is put under its range key
BuildDatabase(inetnums) ==
    [key \in {makeRangeKey(i.start, i.end) : i \in inetnums} |->
       [netname |-> (CHOOSE i \in inetnums : makeRangeKey(i.start, i.end) = key).netname]]

\* the backward loop of lookupRange; lastStart is -1 for 0xFFFFFFFF, which
\* no start exceeds
RECURSIVE ScanBackward(_, _, _, _, _, _, _)
ScanBackward(db, pos, queryStart, queryEnd, scannedCount, lastStart, candidates) ==
    IF pos = NoRipeKey \/ scannedCount >= maxBackwardScan THEN candidates
    ELSE LET currentStart == extractStartFromKey(pos)
             inet == InetAt(db, pos)
         IN  IF currentStart < queryStart /\ queryStart - currentStart > earlyExitDistance
             THEN candidates
             ELSE IF lastStart # -1 /\ currentStart > lastStart
             THEN candidates
             ELSE ScanBackward(db, RipePrev(DOMAIN db, pos), queryStart, queryEnd,
                               scannedCount + 1, currentStart,
                               IF inet.start <= queryStart /\ inet.end >= queryEnd
                               THEN Append(candidates, inet) ELSE candidates)

\* the forward loop of lookupRange, from the seek position again
RECURSIVE ScanForward(_, _, _, _, _, _)
ScanForward(db, pos, queryStart, queryEnd, i, candidates) ==
    IF pos = NoRipeKey \/ i >= forwardSteps THEN candidates
    ELSE LET inet == InetAt(db, pos)
             isDuplicate == \E n \in DOMAIN candidates :
                              candidates[n].start = inet.start /\ candidates[n].end = inet.end
         IN  IF extractStartFromKey(pos) > queryStart THEN candidates
             ELSE ScanForward(db, RipeNext(DOMAIN db, pos), queryStart, queryEnd, i + 1,
                              IF inet.start <= queryStart /\ inet.end >= queryEnd /\ ~isDuplicate
                              THEN Append(candidates, inet) ELSE candidates)

Larger(c, mostSpecific) == c.end - c.start > mostSpecific.end - mostSpecific.start

\* a candidate replaces the current choice when its range is smaller
Smaller(c, mostSpecific) == c.end - c.start < mostSpecific.end - mostSpecific.start

RECURSIVE MostSpecific(_, _)
MostSpecific(candidates, mostSpecific) ==
    IF candidates = <<>> THEN mostSpecific
    ELSE MostSpecific(Tail(candidates),
                      IF Smaller(Head(candidates), mostSpecific)
                      THEN Head(candidates) ELSE mostSpecific)

lookupRange(db, queryStart, queryEnd) ==
    LET K == DOMAIN db
        seekKey == makeRangeKey(queryStart, 0)
        sought == RipeSeek(K, seekKey)
        from == IF sought # NoRipeKey
                THEN IF extractStartFromKey(sought) > queryStart
                     THEN RipePrev(K, sought) ELSE sought
                ELSE RipeLast(K)
        backward == ScanBackward(db, from, queryStart, queryEnd, 0, -1, <<>>)
        candidates == ScanForward(db, sought, queryStart, queryEnd, 0, backward)
        mostSpecific == MostSpecific(Tail(candidates), Head(candidates))
    IN  IF candidates = <<>>
        THEN [err |-> RipeErrNotFound, found |-> FALSE, start |-> 0, end |-> 0]
        ELSE IF mostSpecific.netname = PlaceholderNetname
        THEN [err |-> Nil, found |-> FALSE, start |-> 0, end |-> 0]
        ELSE [err |-> Nil, found |-> TRUE,
              start |-> mostSpecific.start, end |-> mostSpecific.end]

\* one inetnum inside the other, or the two apart
NestedPair(a, b) ==
    \/ a.start <= b.start /\ b.end <= a.end
    \/ b.start <= a.start /\ a.end <= b.end
    \/ a.end < b.start
    \/ b.end < a.start

\* the sets of exactly n nested inetnums, one inetnum per range, each set
\* built in the order of its keys
RECURSIVE NestedSets(_)
NestedSets(n) ==
    IF n = 0 THEN {{}}
    ELSE UNION {{S \cup {i} : i \in {j \in Inetnums :
                                      \A a \in S : /\ RipeKeyLess(makeRangeKey(a.start, a.end),
                                                                  makeRangeKey(j.start, j.end))
                                                   /\ NestedPair(a, j)}} :
                  S \in NestedSets(n - 1)}

\* the parsed dumps the index is built from
InetnumSets == UNION {NestedSets(n) : n \in 0..MaxInetnums}

\* the /31 prefixes of the model's addresses
RipePrefixes == {q \in [qs : RipeAddrs, qe : RipeAddrs] : q.qs % 2 = 0 /\ q.qe = q.qs + 1}

InitRipe ==
    /\ IndexOpen
    /\ ConcIdle
    /\ PoolIdle
    /\ SourcesIdle
    /\ ripeDb \in {BuildDatabase(S) : S \in InetnumSets}
    /\ match = NoMatch

RipeLookupIP(ip) ==
    /\ LET m == lookupRange(ripeDb, ip, ip) IN
         match' = [op |-> "LookupIP", qs |-> ip, qe |-> ip, err |-> m.err,
                   found |-> m.found, start |-> m.start, end |-> m.end]
    /\ UNCHANGED <<ripeDb, notRipe>>

RipeLookupPrefix(q) ==
    /\ LET m == lookupRange(ripeDb, q.qs, q.qe) IN
         match' = [op |-> "LookupPrefix", qs |-> q.qs, qe |-> q.qe, err |-> m.err,
                   found |-> m.found, start |-> m.start, end |-> m.end]
    /\ UNCHANGED <<ripeDb, notRipe>>

NextRipe ==
    \/ \E ip \in RipeAddrs : RipeLookupIP(ip)
    \/ \E q \in RipePrefixes : RipeLookupPrefix(q)

SpecRipe == InitRipe /\ [][NextRipe]_vars

(***************************************************************************)
(* Organisation-name resolution of the RIPE lookup, for the inetnum the    *)
(* lookup selected (its netname is not the placeholder).  Texts are         *)
(* sequences of characters.                                                *)
(***************************************************************************)
NoOrgName == <<"(", "n", "o", " ", "o", "r", "g", ")">>

HasPrefix(str, prefix) ==
    Len(str) >= Len(prefix) /\ SubSeq(str, 1, Len(prefix)) = prefix

\* strings.ToLower on the letters the model's texts use
ToLower(str) == [i \in DOMAIN str |-> IF str[i] = "S" THEN "s"
                                      ELSE IF str[i] = "A" THEN "a" ELSE str[i]]

instructionalPrefixes ==
    {<<"p", "l", "e", "a", "s", "e", " ">>,
     <<"f", "o", "r", " ", "r", "e", "g", "i", "s", "t", "r", "a", "t", "i", "o", "n">>,
     <<"y", "o", "u", " ", "c", "a", "n", " ", "c", "o", "n", "s", "u", "l", "t">>,
     <<"t", "h", "i", "s", " ", "n", "e", "t", "w", "o", "r", "k">>,
     <<"a", "b", "u", "s", "e">>, <<"c", "o", "n", "t", "a", "c", "t">>,
     <<"s", "e", "n", "d", " ">>, <<"s", "e", "e", " ">>,
     <<"v", "i", "s", "i", "t", " ">>, <<"r", "e", "f", "e", "r", " ", "t", "o">>}

isValidOrgRemark(remark) ==
    LET lower == ToLower(remark)
        trimmed == Trim(remark, {" "})
        separatorChars == Cardinality({i \in DOMAIN remark :
                                         remark[i] \in {"-", "*", "=", "_", "#"}})
    IN  /\ Len(remark) >= 3
        /\ ~HasPrefix(lower, <<"h", "t", "t", "p", ":", "/", "/">>)
        /\ ~HasPrefix(lower, <<"h", "t", "t", "p", "s", ":", "/", "/">>)
        /\ ~\E i \in DOMAIN lower : HasPrefix(SubSeq(lower, i, Len(lower)),
                                              <<"m", "a", "i", "l", "t", "o", ":">>)
        /\ ~\E i \in DOMAIN remark : remark[i] = "@"
        /\ ~HasPrefix(trimmed, <<"*">>)
        /\ ~HasPrefix(trimmed, <<"-">>)
        /\ \A prefix \in instructionalPrefixes : ~HasPrefix(lower, prefix)
        /\ ~(separatorChars > (Len(remark) * 4) \div 5)

\* the loop over mostSpecific.Remarks: the first valid remark, trimmed
RECURSIVE FirstValidRemark(_, _)
FirstValidRemark(remarks, orgName) ==
    IF remarks = <<>> THEN orgName
    ELSE IF isValidOrgRemark(Trim(Head(remarks), {" "}))
    THEN Trim(Head(remarks), {" "})
    ELSE FirstValidRemark(Tail(remarks), orgName)

\* the fallback hierarchy of lookupRange; org is what GetOrganisation answers
\* for mostSpecific.OrgID
resolveOrgName(mostSpecific, org) ==
    LET byOrg == IF mostSpecific.hasOrgId /\ ~org.err THEN org.name ELSE NoOrgName
        descr == Trim(mostSpecific.descr, {" "})
        byDescr == IF byOrg = NoOrgName /\ mostSpecific.descr # <<>> /\ isValidOrgRemark(descr)
                   THEN descr ELSE byOrg
        byRemarks == IF byDescr = NoOrgName
                     THEN FirstValidRemark(mostSpecific.remarks, byDescr) ELSE byDescr
    IN  IF byRemarks = NoOrgName /\ mostSpecific.netname # <<>>
        THEN mostSpecific.netname ELSE byRemarks

\* descr and remarks of the parsed objects: empty, a name, a name in blanks,
\* a separator line, an advisory, a mail address
RipeTexts == {<<>>, <<"A", "c", "m", "e">>, <<" ", "L", "t", "d", " ">>,
              <<"-", "-", "-", "-">>, <<"S", "e", "e", " ", "x">>, <<"a", "@", "b">>}

\* GetOrganisation: the handle is unknown, or the stored organisation with its
\* org-name, which the parsed object may lack
OrgAnswers == {[err |-> TRUE, name |-> <<>>]}
              \cup {[err |-> FALSE, name |-> n] : n \in {<<>>, <<"O", "r", "g">>}}

RemarkLists == UNION {[1..n -> RipeTexts \ {<<>>}] : n \in 0..MaxRemarks}

MatchedInetnums == [hasOrgId : BOOLEAN, descr : RipeTexts, remarks : RemarkLists,
                    netname : {<<>>, <<"N", "E", "T">>}]

InitRipeOrg ==
    /\ IndexOpen
    /\ ConcIdle
    /\ PoolIdle
    /\ RipeIdle
    /\ SourcesIdle

\* the part of lookupRange after the most specific inetnum is chosen
ResolveOrg(mostSpecific, org) ==
    /\ resolved' = [op |-> "lookupRange", inet |-> mostSpecific, org |-> org,
                    orgName |-> resolveOrgName(mostSpecific, org)]
    /\ UNCHANGED notResolved

NextRipeOrg == \E mostSpecific \in MatchedInetnums, org \in OrgAnswers :
                  ResolveOrg(mostSpecific, org)

SpecRipeOrg == InitRipeOrg /\ [][NextRipeOrg]_vars

(***************************************************************************)
(* The ARIN bulk index (pkg/arinbulk).  Range keys are "R4:" + start + end *)
(* as in the RIPE index, and the iterator runs over the same store         *)
(* library; "ORG:" and "META:" keys sort before "R4:", so the range keys   *)
(* are the last keys of the store.  The index is built once and then read. *)
(***************************************************************************)
arinExitDistance == 16777216

ArinErrNotFound == "no matching network found"

ArinAddrs == (0..MaxArin) \cup {arinExitDistance + MaxArin}

NetBlocks == {n \in [start : ArinAddrs, end : ArinAddrs] : n.start <= n.end}

\* the parsed dumps: net blocks of which any two are nested or apart
NetBlockSets == {S \in SUBSET NetBlocks :
                   Cardinality(S) <= MaxNets /\ \A a, b \in S : NestedPair(a, b)}

\* the net block stored under a key, unmarshalled
NetAt(key) == [start |-> key[1], end |-> key[2]]

\* Iterator.First; NoRipeKey is the iterator past the last key
ArinFirst(K) == IF K = {} THEN NoRipeKey ELSE RipeMin(K)

\* Iterator.Prev: from past the last key it is Last
ArinPrev(K, pos) == IF pos = NoRipeKey THEN RipeLast(K) ELSE RipePrev(K, pos)

\* the loop "for iter.Prev()" of LookupIP and of LookupPrefix; pos is where
\* Prev has just moved the iterator
RECURSIVE ArinScanBackward(_, _, _, _, _)
ArinScanBackward(K, pos, lo, hi, candidates) ==
    IF pos = NoRipeKey THEN candidates
    ELSE LET net == NetAt(pos) IN
         IF net.start < lo /\ lo - net.start > arinExitDistance
         THEN candidates
         ELSE ArinScanBackward(K, RipePrev(K, pos), lo, hi,
                               IF lo >= net.start /\ hi <= net.end
                               THEN Append(candidates, net) ELSE candidates)

\* the loop "for iter.Next()" after the second Seek; pos is where Next has
\* just moved the iterator
RECURSIVE ArinScanForward(_, _, _, _, _)
ArinScanForward(K, pos, lo, hi, candidates) ==
    IF pos = NoRipeKey THEN candidates
    ELSE LET net == NetAt(pos) IN
         IF net.start > lo
         THEN candidates
         ELSE ArinScanForward(K, RipeNext(K, pos), lo, hi,
                              IF lo >= net.start /\ hi <= net.end
                              THEN Append(candidates, net) ELSE candidates)

\* the choice among the candidates and buildMatch
ArinMatchOf(candidates) ==
    IF candidates = <<>>
    THEN [err |-> ArinErrNotFound, found |-> FALSE, start |-> 0, end |-> 0]
    ELSE LET mostSpecific == MostSpecific(Tail(candidates), Head(candidates)) IN
         [err |-> Nil, found |-> TRUE,
          start |-> mostSpecific.start, end |-> mostSpecific.end]

arinLookupIP(K, ipInt) ==
    LET sought == RipeSeek(K, makeRangeKey(ipInt, 0))
        from == IF sought = NoRipeKey THEN ArinFirst(K) ELSE sought
        backward == ArinScanBackward(K, ArinPrev(K, from), ipInt, ipInt, <<>>)
    IN  ArinMatchOf(ArinScanForward(K, RipeNext(K, sought), ipInt, ipInt, backward))

arinLookupPrefix(K, prefixStart, prefixEnd) ==
    LET sought == RipeSeek(K, makeRangeKey(prefixStart, 0))
        current == IF sought = NoRipeKey THEN ArinFirst(K) ELSE sought
        first == IF /\ current # NoRipeKey
                    /\ prefixStart >= NetAt(current).start
                    /\ prefixEnd <= NetAt(current).end
                 THEN <<NetAt(current)>> ELSE <<>>
        backward == ArinScanBackward(K, ArinPrev(K, sought), prefixStart, prefixEnd, first)
    IN  ArinMatchOf(ArinScanForward(K, RipeNext(K, sought), prefixStart, prefixEnd,
                                    backward))

\* the /32 and the /31 prefixes of the model's addresses
ArinPrefixes == {q \in [qs : ArinAddrs, qe : ArinAddrs] :
                   q.qe = q.qs \/ (q.qs % 2 = 0 /\ q.qe = q.qs + 1)}

InitArin ==
    /\ IndexOpen
    /\ ConcIdle
    /\ PoolIdle
    /\ RipeIdle
    /\ PickIdle
    /\ resolved = [op |-> "none"]
    /\ RdapIdle
    /\ CodecIdle
    /\ FnIdle
    /\ arinDb \in {{makeRangeKey(n.start, n.end) : n \in S} : S \in NetBlockSets}
    /\ arinMatch = NoMatch

ArinLookupIP(ip) ==
    /\ LET m == arinLookupIP(arinDb, ip) IN
         arinMatch' = [op |-> "LookupIP", qs |-> ip, qe |-> ip, err |-> m.err,
                       found |-> m.found, start |-> m.start, end |-> m.end]
    /\ UNCHANGED <<arinDb, notArin>>

ArinLookupPrefix(q) ==
    /\ LET m == arinLookupPrefix(arinDb, q.qs, q.qe) IN
         arinMatch' = [op |-> "LookupPrefix", qs |-> q.qs, qe |-> q.qe, err |-> m.err,
                       found |-> m.found, start |-> m.start, end |-> m.end]
    /\ UNCHANGED <<arinDb, notArin>>

NextArin ==
    \/ \E ip \in ArinAddrs : ArinLookupIP(ip)
    \/ \E q \in ArinPrefixes : ArinLookupPrefix(q)

SpecArin == InitArin /\ [][NextArin]_vars

(***************************************************************************)
(* The RDAP client (pkg/sources/rdap): Client.QueryIP with workers.Retry,  *)
(* Client.OrgForPrefix with ParseOrg, and CachedClient.OrgForPrefix, whose *)
(* cache is kept in the main index (open while lookups are made).  An      *)
(* error is the sequence of its wrapping messages, innermost last; the nil *)
(* error is the empty sequence.                                            *)
(***************************************************************************)
defaultMaxAttempts == 3

ErrRateLimited == "rate limited by upstream service"

NoErr == <<>>

\* fmt.Errorf(msg + ": %w", err)
Wrap(msg, err) == <<msg>> \o err

DefaultRetryConfig == [MaxAttempts |-> defaultMaxAttempts]

RdapOrgNames == {<<"o">>, <<"p">>}

\* what one request meets: no answer at all, or the service's status and,
\* with 200, the organisation the body names
ServerAnswers == {[status |-> st, org |-> <<>>] : st \in {"none", "404", "429"}}
                 \cup {[status |-> "200", org |-> n] : n \in RdapOrgNames}

\* the function QueryIP hands to Retry: the error it returns
fnError(answer) ==
    CASE answer.status = "none" -> <<"request failed">>
      [] answer.status = "429" -> <<ErrRateLimited>>
      [] answer.status = "404" -> NoErr
      [] answer.status = "200" -> NoErr
      [] OTHER -> <<"unexpected status">>

NeverLastAttempt(attempt, cfg) == FALSE

\* "if attempt == cfg.MaxAttempts { break }"
IsLastAttempt(attempt, cfg) == attempt = cfg.MaxAttempts

\* QueryIP after Retry has returned
queryIPResult(err, response) ==
    IF err # NoErr
    THEN [nil |-> TRUE, org |-> <<>>,
          err |-> IF err = <<ErrRateLimited>> THEN err ELSE Wrap("RDAP query failed", err)]
    ELSE [nil |-> FALSE, org |-> response.org, err |-> NoErr]

ParseOrg(response) ==
    IF response.nil THEN [nil |-> TRUE, org |-> <<>>, err |-> <<"nil RDAP response">>]
    ELSE IF response.org = <<>>
    THEN [nil |-> TRUE, org |-> <<>>,
          err |-> <<"no organization name found in RDAP response">>]
    ELSE [nil |-> FALSE, org |-> response.org, err |-> NoErr]

\* Client.OrgForPrefix / Client.OrgForIP on the result of the query
clientOrgForPrefix(response) ==
    IF response.err # NoErr THEN response
    ELSE IF response.nil
    THEN [nil |-> TRUE, org |-> <<>>, err |-> <<"no RDAP data for prefix">>]
    ELSE ParseOrg(response)

RawCacheKey(prefix) == prefix

\* the cache key: parsedPrefix.Masked() under "cache:rdap:"
CacheKeyOf(prefix) == NormalizePrefix(prefix)

NoEntry == [nil |-> TRUE, org |-> <<>>, fetchedAt |-> 0]

\* GetCache into a zero CacheEntry; the JSON form keeps both fields
GetCache(cache, key) ==
    IF key \in DOMAIN cache
    THEN [nil |-> FALSE, org |-> cache[key].org, fetchedAt |-> cache[key].fetchedAt]
    ELSE NoEntry

SetCache(cache, key, entry) ==
    [k \in DOMAIN cache \cup {key} |-> IF k = key THEN entry ELSE cache[k]]

\* what CachedClient.OrgForPrefix returns after the upstream lookup
cachedResult(cached, r) ==
    IF r.err # NoErr
    THEN IF r.err = <<ErrRateLimited>> /\ ~cached.nil
         THEN [nil |-> FALSE, org |-> cached.org, err |-> NoErr]
         ELSE [nil |-> TRUE, org |-> <<>>, err |-> r.err]
    ELSE r

\* the prefixes looked up, host bits possibly set
RdapPrefixes == {q \in PrefixInputs : q.bits = 1}

Reply(prefix, hit, cached, tries, client, result) ==
    [op |-> "OrgForPrefix", input |-> prefix, hit |-> hit,
     stale |-> [nil |-> cached.nil, org |-> cached.org],
     tries |-> tries, client |-> client,
     nil |-> result.nil, org |-> result.org, err |-> result.err]

InitRdap ==
    /\ IndexOpen
    /\ ConcIdle
    /\ PoolIdle
    /\ RipeIdle
    /\ ArinIdle
    /\ PickIdle
    /\ resolved = [op |-> "none"]
    /\ rdapCache = <<>>
    /\ now = 0
    /\ cacheTTL \in 1..MaxTTL
    /\ call = [pc |-> "idle"]
    /\ ctxDone = FALSE
    /\ reply = [op |-> "none"]
    /\ CodecIdle
    /\ FnIdle

\* CachedClient.OrgForPrefix up to the first request: the cache is read, and
\* on a miss QueryIP waits for the rate limiter, which fails on a done context
\* and otherwise hands out one token; reply is empty while the call is under
\* way
StartLookup(prefix) ==
    /\ call.pc = "idle"
    /\ LET key == CacheKeyOf(prefix)
           cached == GetCache(rdapCache, key)
           limited == [nil |-> TRUE, org |-> <<>>,
                       err |-> Wrap("rate limit", <<ErrCanceled>>)]
       IN  IF ~cached.nil /\ now - cached.fetchedAt < cacheTTL
           THEN /\ reply' = Reply(prefix, TRUE, cached, <<>>, NoEntry,
                                  [nil |-> FALSE, org |-> cached.org, err |-> NoErr])
                /\ call' = call
           ELSE IF ctxDone
           THEN /\ reply' = Reply(prefix, FALSE, cached, <<>>, limited,
                                  cachedResult(cached, limited))
                /\ call' = call
           ELSE /\ call' = [pc |-> "attempt", input |-> prefix, key |-> key,
                            cached |-> cached, attempt |-> 1, tries |-> <<>>,
                            tokens |-> 1,
                            err |-> NoErr, response |-> [org |-> <<>>]]
                /\ reply' = [op |-> "none"]
    /\ UNCHANGED <<rdapCache, now, cacheTTL, ctxDone, notRdap>>

\* one pass of Retry's loop: fn is invoked, and its result ends the loop, ends
\* it as the last attempt, or leads into the backoff wait
Attempt(answer) ==
    /\ call.pc = "attempt"
    /\ ctxDone => answer.status = "none"
    /\ LET err == fnError(answer)
           tries == Append(call.tries, answer.status)
       IN  IF err = NoErr
           THEN call' = [call EXCEPT !.pc = "finish", !.tries = tries,
                                     !.response = [org |-> answer.org], !.err = NoErr]
           ELSE IF IsLastAttempt(call.attempt, DefaultRetryConfig)
           THEN call' = [call EXCEPT !.pc = "finish", !.tries = tries,
                                     !.err = Wrap("max retries exceeded", err)]
           ELSE call' = [call EXCEPT !.pc = "backoff", !.tries = tries, !.err = err]
    /\ UNCHANGED <<rdapCache, now, cacheTTL, ctxDone, reply, notRdap>>

\* the select of the backoff wait: the timer fires while the context is live
BackoffTimer ==
    /\ call.pc = "backoff"
    /\ ~ctxDone
    /\ call' = [call EXCEPT !.pc = "attempt", !.attempt = call.attempt + 1]
    /\ UNCHANGED <<rdapCache, now, cacheTTL, ctxDone, reply, notRdap>>

\* the select of the backoff wait: the context is done
BackoffCancelled ==
    /\ call.pc = "backoff"
    /\ ctxDone
    /\ call' = [call EXCEPT !.pc = "finish",
                            !.err = Wrap("retry cancelled", <<ErrCanceled>>)]
    /\ UNCHANGED <<rdapCache, now, cacheTTL, ctxDone, reply, notRdap>>

\* Retry has returned: the rest of QueryIP, of Client.OrgForPrefix and of
\* CachedClient.OrgForPrefix
FinishLookup ==
    /\ call.pc = "finish"
    /\ LET client == clientOrgForPrefix(
                       queryIPResult(call.err, [nil |-> FALSE, org |-> call.response.org]))
           result == cachedResult(call.cached, client)
       IN  /\ rdapCache' = IF client.err = NoErr
                           THEN SetCache(rdapCache, call.key,
                                         [org |-> client.org, fetchedAt |-> now])
                           ELSE rdapCache
           /\ reply' = Reply(call.input, FALSE, call.cached, call.tries, client, result)
    /\ call' = [pc |-> "idle"]
    /\ UNCHANGED <<now, cacheTTL, ctxDone, notRdap>>

\* time passes
Tick ==
    /\ now < MaxTime
    /\ now' = now + 1
    /\ UNCHANGED <<rdapCache, cacheTTL, call, ctxDone, reply, notRdap>>

\* the build's context is cancelled
CancelContext ==
    /\ ~ctxDone
    /\ ctxDone' = TRUE
    /\ UNCHANGED <<rdapCache, now, cacheTTL, call, reply, notRdap>>

NextRdap ==
    \/ \E prefix \in RdapPrefixes : StartLookup(prefix)
    \/ \E answer \in ServerAnswers : Attempt(answer)
    \/ BackoffTimer
    \/ BackoffCancelled
    \/ FinishLookup
    \/ Tick
    \/ CancelContext

SpecRdap == InitRdap /\ [][NextRdap]_vars

(***************************************************************************)
(* The range-to-CIDR conversion of the iptoasn parser (rangeToCIDRsV4).    *)
(* Addresses are the unsigned integers of WordBits bits that ipToUint32    *)
(* yields; sums and shifts wrap as Go's uint32 arithmetic does.            *)
(***************************************************************************)
WordMod == Pow2(WordBits)

\* 0xFFFFFFFF, the integer of 255.255.255.255
MaxUint == WordMod - 1

\* the list is followed up to this many CIDRs, more than the covering of any
\* range holds; of a longer list the model keeps the first MaxCidrs and the
\* fact that more were appended
MaxCidrs == 2 * WordBits

\* uint32(1) << n: a shift by the whole width yields 0
ShiftLeftOne(n) == Pow2(n) % WordMod

\* the loop "for temp&1 == 0 { maxTrailingZeros++; temp >>= 1 }"
RECURSIVE countTrailingZeros(_)
countTrailingZeros(temp) ==
    IF temp % 2 = 0 THEN 1 + countTrailingZeros(temp \div 2) ELSE 0

maxTrailingZeros(startInt) ==
    IF startInt # 0 THEN countTrailingZeros(startInt) ELSE WordBits

\* blockEnd := startInt + blockSize - 1, in unsigned arithmetic
blockEnd(startInt, pl) ==
    (startInt + ShiftLeftOne(WordBits - pl) + WordMod - 1) % WordMod

\* the loop over pl: the first prefix length whose block does not pass endInt,
\* the whole width when the loop runs out
RECURSIVE firstFit(_, _, _)
firstFit(startInt, endInt, pl) ==
    IF pl > WordBits THEN WordBits
    ELSE IF blockEnd(startInt, pl) <= endInt THEN pl
    ELSE firstFit(startInt, endInt, pl + 1)

prefixLen(startInt, endInt) ==
    firstFit(startInt, endInt, WordBits - maxTrailingZeros(startInt))

\* &net.IPNet{IP: uint32ToIP(startInt), Mask: net.CIDRMask(prefixLen, 32)}
IPNet(startInt, bits) == [ip |-> startInt, bits |-> bits]

\* the addresses a CIDR contains: those equal to its IP under its mask
CidrAddrs(c) ==
    {a \in 0..MaxUint :
        a \div Pow2(WordBits - c.bits) = c.ip \div Pow2(WordBits - c.bits)}

InitCidr ==
    /\ IndexOpen
    /\ ConcIdle
    /\ PoolIdle
    /\ RipeIdle
    /\ ArinIdle
    /\ PickIdle
    /\ resolved = [op |-> "none"]
    /\ RdapIdle
    /\ FnIdle
    /\ \E start \in 0..MaxUint, end \in 0..MaxUint :
          conv = [pc |-> "call", start |-> start, end |-> end,
                  startInt |-> start, endInt |-> end,
                  cidrs |-> <<>>, more |-> FALSE]

\* the entry of rangeToCIDRsV4: a range whose start is above its end is refused
CheckOrder ==
    /\ conv.pc = "call"
    /\ conv' = [conv EXCEPT !.pc = IF conv.startInt > conv.endInt
                                   THEN "error" ELSE "test"]
    /\ UNCHANGED notCodec

\* the condition of "for startInt <= endInt": the body runs while it holds,
\* the list is returned when it fails
LoopTest ==
    /\ conv.pc = "test"
    /\ conv' = [conv EXCEPT !.pc = IF conv.startInt <= conv.endInt
                                   THEN "body" ELSE "returned"]
    /\ UNCHANGED notCodec

\* the body of the loop: the largest aligned block that fits is appended and
\* startInt moves past it; the loop is left here only when startInt wrapped
\* to 0 and endInt is not the top address
LoopBody ==
    /\ conv.pc = "body"
    /\ LET bits == prefixLen(conv.startInt, conv.endInt)
           next == (conv.startInt + ShiftLeftOne(WordBits - bits)) % WordMod
           room == Len(conv.cidrs) < MaxCidrs
       IN  conv' = [conv EXCEPT
                      !.cidrs = IF room THEN Append(@, IPNet(conv.startInt, bits))
                                ELSE @,
                      !.more = ~room,
                      !.startInt = next,
                      !.pc = IF next = 0 /\ conv.endInt # MaxUint
                             THEN "returned" ELSE "test"]
    /\ UNCHANGED notCodec

NextCidr ==
    \/ CheckOrder
    \/ LoopTest
    \/ LoopBody

SpecCidr == InitCidr /\ [][NextCidr]_vars

\* the call runs on while it has a step to take
SpecCidrLive == SpecCidr /\ WF_vars(NextCidr)

(***************************************************************************)
(* The aggregator and the store of the iptoasn build.  A CanonicalPrefix   *)
(* is its CIDR and its ASN; a CIDR string is the network it spells.        *)
(***************************************************************************)
\* unicode.MaxRune, the surrogate range and utf8.RuneError
MaxRune == 1114111
surrogateMin == 55296
surrogateMax == 57343
RuneError == 65533

\* string(rune(n)): the encoding of the code point n, and that of U+FFFD for
\* an n that is no valid code point; the string is named by its code point
RuneString(n) ==
    IF n < 0 \/ n > MaxRune \/ (surrogateMin <= n /\ n <= surrogateMax)
    THEN RuneError ELSE n

\* a key of Deduplicate that carries the whole number
FullKey(p) == <<p.CIDR, p.ASN>>

\* key := p.CIDR + "|" + string(rune(p.ASN))
dedupKey(p) == <<p.CIDR, RuneString(p.ASN)>>

RECURSIVE DeduplicateFrom(_, _, _)
DeduplicateFrom(prefixes, seen, result) ==
    IF prefixes = <<>> THEN result
    ELSE LET p == Head(prefixes)
             key == dedupKey(p)
         IN  IF key \notin seen
             THEN DeduplicateFrom(Tail(prefixes), seen \cup {key}, Append(result, p))
             ELSE DeduplicateFrom(Tail(prefixes), seen, result)

Deduplicate(prefixes) == DeduplicateFrom(prefixes, {}, <<>>)

\* the CIDRs of the model's datasets: aligned networks within 0..MaxAggAddr;
\* the parser yields no network that holds the top address
AggCidrs ==
    {c \in [ip : 0..MaxAggAddr, bits : 0..WordBits] :
        /\ c.ip % Pow2(WordBits - c.bits) = 0
        /\ c.ip + Pow2(WordBits - c.bits) - 1 <= MaxAggAddr}

DedupCidrs == {c \in AggCidrs : c.ip = 0 /\ c.bits >= WordBits - 1}

\* ASNs of 16 bits, U+FFFD itself, and numbers beyond the code points
DedupASNs == {13335, RuneError, MaxRune + 1, 2147483647}

RECURSIVE SeqsUpTo(_, _)
SeqsUpTo(S, n) ==
    IF n = 0 THEN {<<>>}
    ELSE LET shorter == SeqsUpTo(S, n - 1)
         IN  shorter \cup {Append(q, x) : q \in {r \in shorter : Len(r) = n - 1}, x \in S}

DedupInputs == SeqsUpTo([CIDR : DedupCidrs, ASN : DedupASNs], MaxPrefixes + 1)

InitDedup ==
    /\ IndexOpen
    /\ ConcIdle
    /\ PoolIdle
    /\ RipeIdle
    /\ ArinIdle
    /\ PickIdle
    /\ resolved = [op |-> "none"]
    /\ RdapIdle
    /\ CodecIdle
    /\ parsed = [pc |-> "idle"]
    /\ asnStore = <<>>
    /\ builds = 0
    /\ geo = [pc |-> "idle"]
    /\ \E prefixes \in DedupInputs : dedup = [pc |-> "call", input |-> prefixes]

RunDeduplicate ==
    /\ dedup.pc = "call"
    /\ dedup' = [pc |-> "done", input |-> dedup.input,
                 result |-> Deduplicate(dedup.input)]
    /\ UNCHANGED <<parsed, asnStore, builds, geo, notFn>>

NextDedup == RunDeduplicate

SpecDedup == InitDedup /\ [][NextDedup]_vars

\* net.ParseCIDR: the network of the CIDR, its address masked
ParseCIDR(cidr) ==
    IPNet((cidr.ip \div Pow2(WordBits - cidr.bits)) * Pow2(WordBits - cidr.bits),
          cidr.bits)

\* start and end of a parsed prefix: end := start + (1 << hostBits) - 1
parsedPrefix(p) ==
    LET ipnet == ParseCIDR(p.CIDR)
    IN  [prefix |-> p, start |-> ipnet.ip,
         end |-> (ipnet.ip + ShiftLeftOne(WordBits - ipnet.bits) + WordMod - 1)
                     % WordMod]

\* sort.Slice by start: a list this short is sorted by insertion, which keeps
\* the order of the input among equal starts
RECURSIVE InsertByStart(_, _)
InsertByStart(sorted, x) ==
    IF sorted = <<>> THEN <<x>>
    ELSE IF x.start < Head(sorted).start THEN <<x>> \o sorted
    ELSE <<Head(sorted)>> \o InsertByStart(Tail(sorted), x)

RECURSIVE SortByStart(_)
SortByStart(list) ==
    IF list = <<>> THEN <<>>
    ELSE InsertByStart(SortByStart(SubSeq(list, 1, Len(list) - 1)), list[Len(list)])

MapSeq(list, Op(_)) == [i \in DOMAIN list |-> Op(list[i])]

PrefixOf(x) == x.prefix

SortByStartIP(prefixes) == MapSeq(SortByStart(MapSeq(prefixes, parsedPrefix)), PrefixOf)

\* Aggregator.rangeToCIDRList: the loop of rangeToCIDRsV4 over again, each
\* CIDR carrying the template's ASN
RECURSIVE rangeToCIDRList(_, _, _)
rangeToCIDRList(start, end, template) ==
    IF start > end THEN <<>>
    ELSE LET bits == prefixLen(start, end)
             next == (start + ShiftLeftOne(WordBits - bits)) % WordMod
             cp == [CIDR |-> IPNet(start, bits), ASN |-> template.ASN]
         IN  IF next = 0 /\ end # MaxUint THEN <<cp>>
             ELSE <<cp>> \o rangeToCIDRList(next, end, template)

\* the loop of Collapse over the sorted prefixes from the second one on
RECURSIVE collapseFrom(_, _, _, _, _)
collapseFrom(sorted, i, current, currentStart, currentEnd) ==
    IF i > Len(sorted)
    THEN rangeToCIDRList(currentStart, currentEnd, current.prefix)
    ELSE LET next == sorted[i] IN
         IF next.start <= (currentEnd + 1) % WordMod
         THEN collapseFrom(sorted, i + 1, current, currentStart,
                           IF next.end > currentEnd THEN next.end ELSE currentEnd)
         ELSE rangeToCIDRList(currentStart, currentEnd, current.prefix)
              \o collapseFrom(sorted, i + 1, next, next.start, next.end)

Collapse(prefixes) ==
    IF prefixes = <<>> THEN prefixes
    ELSE LET sorted == SortByStart(MapSeq(prefixes, parsedPrefix))
         IN  collapseFrom(sorted, 2, sorted[1], sorted[1].start, sorted[1].end)

\* the prefixes of one ASN, in the order of the list
RECURSIVE OfASN(_, _)
OfASN(prefixes, asn) ==
    IF prefixes = <<>> THEN <<>>
    ELSE (IF Head(prefixes).ASN = asn THEN <<Head(prefixes)>> ELSE <<>>)
         \o OfASN(Tail(prefixes), asn)

ASNsOf(prefixes) == {prefixes[i].ASN : i \in DOMAIN prefixes}

CollapseByASN(prefixes) ==
    [asn \in ASNsOf(prefixes) |-> Collapse(OfASN(prefixes, asn))]

\* keys of the iptoasn store
prefixGlobalV4 == "P4:"
prefixASNRaw == "A:"
prefixASNCollapsed == "Ac:"
prefixASNIndex == "AIDX:"

makeGlobalKey(start) == [ns |-> prefixGlobalV4, asn |-> 0, n |-> start]
makeASNRawKey(asn, index) == [ns |-> prefixASNRaw, asn |-> asn, n |-> index]
makeASNCollapsedKey(asn, index) == [ns |-> prefixASNCollapsed, asn |-> asn, n |-> index]
makeASNIndexKey(asn) == [ns |-> prefixASNIndex, asn |-> asn, n |-> 0]

\* the store after Put(key, value) of every index of a list
putList(st, list, Key(_)) ==
    [k \in DOMAIN st \cup {Key(i - 1) : i \in DOMAIN list} |->
        IF \E i \in DOMAIN list : Key(i - 1) = k
        THEN list[CHOOSE i \in DOMAIN list : Key(i - 1) = k]
        ELSE st[k]]

\* the global list: one Put per prefix under its start, a later Put of the
\* same key replacing the earlier one
RECURSIVE putGlobal(_, _)
putGlobal(st, prefixes) ==
    IF prefixes = <<>> THEN st
    ELSE LET p == Head(prefixes)
             key == makeGlobalKey(parsedPrefix(p).start)
         IN  putGlobal([k \in DOMAIN st \cup {key} |-> IF k = key THEN p ELSE st[k]],
                       Tail(prefixes))

\* the raw list, the collapsed list and the index entry of every ASN of the
\* batch; the keys of two ASNs differ, so the order of the ASNs is immaterial
RECURSIVE putByASN(_, _, _, _)
putByASN(st, asns, prefixes, collapsedByASN) ==
    IF asns = {} THEN st
    ELSE LET asn == CHOOSE a \in asns : TRUE
             rawPrefixes == OfASN(prefixes, asn)
             rawKey(i) == makeASNRawKey(asn, i)
             collapsedKey(i) == makeASNCollapsedKey(asn, i)
             withRaw == putList(st, rawPrefixes, rawKey)
             collapsed == IF asn \in DOMAIN collapsedByASN
                          THEN collapsedByASN[asn] ELSE <<>>
             withCollapsed == putList(withRaw, collapsed, collapsedKey)
             indexEntry == [ASN |-> asn, V4Count |-> Len(rawPrefixes),
                            V4Collapsed |-> IF asn \in DOMAIN collapsedByASN
                                            THEN Len(collapsed) ELSE Len(rawPrefixes)]
             withIndex == [k \in DOMAIN withCollapsed \cup {makeASNIndexKey(asn)} |->
                              IF k = makeASNIndexKey(asn) THEN indexEntry
                              ELSE withCollapsed[k]]
         IN  putByASN(withIndex, asns \ {asn}, prefixes, collapsedByASN)

\* iptoasn.Store.WriteBatch: a batch of Puts and nothing else
StoreWriteBatch(st, prefixes, collapsedByASN) ==
    putByASN(putGlobal(st, prefixes), ASNsOf(prefixes), prefixes, collapsedByASN)

\* Store.ListByASN: the values under the keys of the ASN's list, in key order
ListByASN(st, asn, collapsed) ==
    LET ns == IF collapsed THEN prefixASNCollapsed ELSE prefixASNRaw
        keys == {k \in DOMAIN st : k.ns = ns /\ k.asn = asn}
    IN  [i \in 1..Cardinality(keys) |->
            st[CHOOSE k \in keys : Cardinality({j \in keys : j.n < k.n}) = i - 1]]

\* Store.ListASNs: the ASNs that have an index entry
ListASNs(st) == {k.asn : k \in {j \in DOMAIN st : j.ns = prefixASNIndex}}

BuildASNs == {13335, 2147483647}

Datasets == SeqsUpTo([CIDR : AggCidrs, ASN : BuildASNs], MaxPrefixes)

InitBuild ==
    /\ IndexOpen
    /\ ConcIdle
    /\ PoolIdle
    /\ RipeIdle
    /\ ArinIdle
    /\ PickIdle
    /\ resolved = [op |-> "none"]
    /\ RdapIdle
    /\ CodecIdle
    /\ FnIdle

\* one run of the build command over the parsed rows of a dataset, with
\* collapsing enabled as by default, into the database at the configured path
Build(prefixes) ==
    /\ builds < MaxBuilds
    /\ LET deduplicated == Deduplicate(prefixes)
           sorted == SortByStartIP(deduplicated)
           collapsedByASN == CollapseByASN(sorted)
       IN  asnStore' = StoreWriteBatch(asnStore, sorted, collapsedByASN)
    /\ builds' = builds + 1
    /\ UNCHANGED <<parsed, dedup, geo, notFn>>

NextBuild == \E prefixes \in Datasets : Build(prefixes)

SpecBuild == InitBuild /\ [][NextBuild]_vars

\* the addresses covered by a list of prefixes
Coverage(list) == UNION {CidrAddrs(ParseCIDR(list[i].CIDR)) : i \in DOMAIN list}

(***************************************************************************)
(* The geo split of Mode B.  A netip.Prefix is its address and its bits;   *)
(* PrefixFrom keeps the address as given.  Addresses are GeoBits wide.     *)
(***************************************************************************)
GeoAddrs == 0..(Pow2(GeoBits) - 1)

\* netip.Prefix{}, the prefix that is not valid
NoPrefix == [addr |-> 0, bits |-> -1]

IsValid(prefix) == prefix.bits >= 0

\* addrBytes[bitPos / 8] |= 1 << (7 - bitPos % 8): bit bitPos, counted from
\* the top of the address, is set
SetBit(addr, bitPos) ==
    LET w == Pow2(GeoBits - 1 - bitPos)
    IN  IF (addr \div w) % 2 = 1 THEN addr ELSE addr + w

RECURSIVE setHostBits(_, _)
setHostBits(addr, bitPos) ==
    IF bitPos >= GeoBits THEN addr
    ELSE setHostBits(SetBit(addr, bitPos), bitPos + 1)

lastAddrInPrefix(prefix) == setHostBits(prefix.addr, prefix.bits)

splitPrefix(prefix) ==
    <<[addr |-> prefix.addr, bits |-> prefix.bits + 1],
      [addr |-> SetBit(prefix.addr, prefix.bits), bits |-> prefix.bits + 1]>>

\* b = a + 1 without a carry out of the top byte
areAdjacentIPs(a, b) == a + 1 < Pow2(GeoBits) /\ b = a + 1

\* a merge that never finds a parent
neverMerge(a, b) == NoPrefix

tryMergePrefixes(a, b) ==
    IF a.bits # b.bits THEN NoPrefix
    ELSE IF a.bits - 1 < 0 THEN NoPrefix
    ELSE LET first == IF a.addr < b.addr THEN a ELSE b
             second == IF a.addr < b.addr THEN b ELSE a
             parentPrefix == [addr |-> first.addr, bits |-> a.bits - 1]
             halves == splitPrefix(parentPrefix)
         IN  IF first = halves[1] /\ second = halves[2] THEN parentPrefix
             ELSE NoPrefix

sameGeo(current, next) ==
    /\ current.Country = next.Country
    /\ current.Region = next.Region
    /\ current.City = next.City

\* the loop of mergeAdjacentBlocks from blocks[i] on
RECURSIVE mergeFrom(_, _, _, _)
mergeFrom(blocks, i, current, merged) ==
    IF i > Len(blocks) THEN Append(merged, current)
    ELSE LET next == blocks[i]
             areContiguous == areAdjacentIPs(lastAddrInPrefix(current.Prefix),
                                             next.Prefix.addr)
             parent == tryMergePrefixes(current.Prefix, next.Prefix)
         IN  IF areContiguous /\ sameGeo(current, next) /\ IsValid(parent)
             THEN mergeFrom(blocks, i + 1, [current EXCEPT !.Prefix = parent], merged)
             ELSE mergeFrom(blocks, i + 1, next, Append(merged, current))

mergeAdjacentBlocks(blocks) ==
    IF Len(blocks) <= 1 THEN blocks
    ELSE mergeFrom(blocks, 2, blocks[1], <<>>)

\* what the City database holds for an address: a location, or nothing, and
\* then Readers.Geo fails and the block keeps its empty strings
NoGeo == [Country |-> "", Region |-> "", City |-> ""]

GeoInfos == {[Country |-> "US", Region |-> "California", City |-> "Fresno"],
             [Country |-> "US", Region |-> "California", City |-> "Fremont"],
             NoGeo}

GeoDbs == [GeoAddrs -> GeoInfos]

RECURSIVE SplitPrefixByGeo(_, _, _)
SplitPrefixByGeo(db, prefix, minPrefixLen) ==
    IF prefix.bits >= minPrefixLen
    THEN <<[Prefix |-> prefix, Country |-> db[prefix.addr].Country,
            Region |-> db[prefix.addr].Region, City |-> db[prefix.addr].City]>>
    ELSE LET halves == splitPrefix(prefix)
             blocks1 == SplitPrefixByGeo(db, halves[1], minPrefixLen)
             blocks2 == SplitPrefixByGeo(db, halves[2], minPrefixLen)
         IN  mergeAdjacentBlocks(blocks1 \o blocks2)

\* the prefixes handed to the split are normalized; min_prefix_v4 is any
\* length of the address width
GeoPrefixes ==
    {p \in [addr : GeoAddrs, bits : 0..GeoBits] : p.addr % Pow2(GeoBits - p.bits) = 0}

MinPrefixLens == 0..GeoBits

InitGeo ==
    /\ IndexOpen
    /\ ConcIdle
    /\ PoolIdle
    /\ RipeIdle
    /\ ArinIdle
    /\ PickIdle
    /\ resolved = [op |-> "none"]
    /\ RdapIdle
    /\ CodecIdle
    /\ parsed = [pc |-> "idle"]
    /\ dedup = [pc |-> "idle"]
    /\ asnStore = <<>>
    /\ builds = 0
    /\ \E db \in GeoDbs, prefix \in GeoPrefixes, minPrefixLen \in MinPrefixLens :
          geo = [pc |-> "call", db |-> db, prefix |-> prefix,
                 minPrefixLen |-> minPrefixLen]

\* the call of the enrich step of Mode B
RunSplitPrefixByGeo ==
    /\ geo.pc = "call"
    /\ geo' = [pc |-> "done", db |-> geo.db, prefix |-> geo.prefix,
               minPrefixLen |-> geo.minPrefixLen,
               blocks |-> SplitPrefixByGeo(geo.db, geo.prefix, geo.minPrefixLen)]
    /\ UNCHANGED <<parsed, dedup, asnStore, builds, notFn>>

NextGeo == RunSplitPrefixByGeo

SpecGeo == InitGeo /\ [][NextGeo]_vars

\* the addresses of a block's prefix
BlockAddrs(block) ==
    {a \in GeoAddrs : a \div Pow2(GeoBits - block.Prefix.bits)
                        = block.Prefix.addr \div Pow2(GeoBits - block.Prefix.bits)}

\* a valid single prefix: a length within the width, no host bit set
ValidSinglePrefix(prefix) ==
    /\ prefix.bits \in 0..GeoBits
    /\ prefix.addr \in GeoAddrs
    /\ prefix.addr % Pow2(GeoBits - prefix.bits) = 0

\* two blocks adjacent in address space: one starts where the other ends
AdjacentBlocks(a, b) == lastAddrInPrefix(a.Prefix) + 1 = b.Prefix.addr

\* the union of two blocks is itself a valid single prefix
UnionIsPrefix(a, b) ==
    \E p \in GeoPrefixes :
        BlockAddrs(a) \cup BlockAddrs(b) = BlockAddrs([Prefix |-> p])

(***************************************************************************)
(* The parser of RDAP responses.  Handles, names and remark lines are      *)
(* sequences of characters; a role is the string of the role, which the    *)
(* registries send in lower case.                                          *)
(***************************************************************************)
HasSuffix(str, suffix) ==
    Len(str) >= Len(suffix)
    /\ SubSeq(str, Len(str) - Len(suffix) + 1, Len(str)) = suffix

mntSuffix == <<"-", "M", "N", "T">>
orgPrefix == <<"O", "R", "G", "-">>
ukPrefix == <<"U", "K", "-">>

\* GetEntityName: the first non-empty fn or org of the vCard
RECURSIVE firstVCardName(_)
firstVCardName(vcard) ==
    IF vcard = <<>> THEN <<>>
    ELSE LET fieldArray == Head(vcard)
         IN  IF /\ Len(fieldArray) >= 4
                /\ fieldArray[1] \in {"fn", "org"}
                /\ fieldArray[4] # <<>>
             THEN fieldArray[4]
             ELSE firstVCardName(Tail(vcard))

GetEntityName(entity) ==
    IF Len(entity.VCardArray) < 2 THEN <<>>
    ELSE firstVCardName(entity.VCardArray[2])

\* the first name GetEntityName finds in a list of entities
RECURSIVE firstEntityName(_)
firstEntityName(entities) ==
    IF entities = <<>> THEN <<>>
    ELSE IF GetEntityName(Head(entities)) # <<>> THEN GetEntityName(Head(entities))
    ELSE firstEntityName(Tail(entities))

\* extractOrgFromRemarks: the first description line that is not blank
RECURSIVE firstLine(_)
firstLine(descriptions) ==
    IF descriptions = <<>> THEN <<>>
    ELSE IF Trim(Head(descriptions), {" "}) # <<>>
    THEN Trim(Head(descriptions), {" "})
    ELSE firstLine(Tail(descriptions))

RECURSIVE extractOrgFromRemarks(_)
extractOrgFromRemarks(remarks) ==
    IF remarks = <<>> THEN <<>>
    ELSE IF firstLine(Head(remarks).Description) # <<>>
    THEN firstLine(Head(remarks).Description)
    ELSE extractOrgFromRemarks(Tail(remarks))

\* no entity selected for a role: index 0
NoEntities == [customer |-> 0, orgRegistrant |-> 0, registrant |-> 0,
               administrative |-> 0, technical |-> 0, abuse |-> 0]

\* the body of the loop over the roles of entity i
RECURSIVE scanRoles(_, _, _, _)
scanRoles(sel, i, isOrgEntity, roles) ==
    IF roles = <<>> THEN sel
    ELSE LET roleLower == Head(roles)
             next ==
                 IF roleLower = "customer" THEN [sel EXCEPT !.customer = i]
                 ELSE IF roleLower = "registrant"
                 THEN IF isOrgEntity /\ sel.orgRegistrant = 0
                      THEN [sel EXCEPT !.orgRegistrant = i]
                      ELSE IF sel.registrant = 0 THEN [sel EXCEPT !.registrant = i]
                      ELSE sel
                 ELSE IF roleLower = "administrative"
                 THEN IF sel.administrative = 0 THEN [sel EXCEPT !.administrative = i]
                      ELSE sel
                 ELSE IF roleLower = "technical"
                 THEN IF sel.technical = 0 THEN [sel EXCEPT !.technical = i] ELSE sel
                 ELSE IF roleLower = "abuse" THEN [sel EXCEPT !.abuse = i]
                 ELSE sel
         IN  scanRoles(next, i, isOrgEntity, Tail(roles))

\* the loop over the entities of the response from entity i on
RECURSIVE scanEntities(_, _, _)
scanEntities(sel, entities, i) ==
    IF i > Len(entities) THEN sel
    ELSE IF HasSuffix(entities[i].Handle, mntSuffix)
    THEN scanEntities(sel, entities, i + 1)
    ELSE scanEntities(scanRoles(sel, i, HasPrefix(entities[i].Handle, orgPrefix),
                                entities[i].Roles),
                      entities, i + 1)

hasGoodNetworkName(response) ==
    /\ response.Name # <<>>
    /\ ~HasSuffix(response.Name, mntSuffix)
    /\ Len(response.Name) > 3
    /\ ~HasPrefix(response.Name, ukPrefix)

\* the name of the selected entity: its vCard, then its nested entities
selectedName(entity) ==
    IF GetEntityName(entity) # <<>> THEN GetEntityName(entity)
    ELSE firstEntityName(entity.Entities)

\* the fallbacks of ParseOrg once the selected entity, if any, gave orgName
parseOrgFallback(response, orgName, sourceRole) ==
    IF orgName # <<>> THEN [err |-> "nil", OrgName |-> orgName, SourceRole |-> sourceRole]
    ELSE IF firstEntityName(response.Entities) # <<>>
    THEN [err |-> "nil", OrgName |-> firstEntityName(response.Entities),
          SourceRole |-> "entity"]
    ELSE IF response.Name # <<>> /\ ~HasSuffix(response.Name, mntSuffix)
    THEN [err |-> "nil", OrgName |-> response.Name, SourceRole |-> "network_name"]
    ELSE IF extractOrgFromRemarks(response.Remarks) # <<>>
    THEN [err |-> "nil", OrgName |-> extractOrgFromRemarks(response.Remarks),
          SourceRole |-> "remark"]
    ELSE [err |-> "no organization name found in RDAP response",
          OrgName |-> <<>>, SourceRole |-> sourceRole]

\* ParseOrg on a response that is not nil
ParseOrgResponse(response) ==
    LET sel == scanEntities(NoEntities, response.Entities, 1)
        remarkOrg == extractOrgFromRemarks(response.Remarks)
        ofEntity(i, role) ==
            parseOrgFallback(response, selectedName(response.Entities[i]), role)
    IN  IF sel.customer # 0 THEN ofEntity(sel.customer, "customer")
        ELSE IF sel.orgRegistrant # 0 THEN ofEntity(sel.orgRegistrant, "registrant")
        ELSE IF sel.registrant # 0 THEN ofEntity(sel.registrant, "registrant")
        ELSE IF remarkOrg # <<>>
        THEN [err |-> "nil", OrgName |-> remarkOrg, SourceRole |-> "remark"]
        ELSE IF hasGoodNetworkName(response)
        THEN [err |-> "nil", OrgName |-> response.Name, SourceRole |-> "network_name"]
        ELSE IF sel.administrative # 0 THEN ofEntity(sel.administrative, "administrative")
        ELSE IF sel.technical # 0 THEN ofEntity(sel.technical, "technical")
        ELSE IF sel.abuse # 0 THEN ofEntity(sel.abuse, "abuse")
        ELSE parseOrgFallback(response, <<>>, "")

\* the responses of the model
EntityHandles == {<<"O", "R", "G", "-", "A">>, <<"A", "-", "M", "N", "T">>, <<"A">>}

EntityRoles == {"customer", "registrant", "administrative", "technical", "abuse", "noc"}

VCardArrays ==
    {<<>>,
     <<"vcard", <<<<"version", "{}", "text", <<"4", ".", "0">>>>,
                  <<"fn", "{}", "text", <<"A", "c", "m", "e">>>>>>>>,
     <<"vcard", <<<<"fn", "{}", "text", <<>>>>,
                  <<"org", "{}", "text", <<"H", "o", "o", "l", "i">>>>>>>>}

NestedEntities ==
    {<<>>,
     <<[Handle |-> <<"B">>, Roles |-> <<"technical">>,
        VCardArray |-> <<"vcard", <<<<"fn", "{}", "text", <<"N", "e", "s", "t">>>>>>>>,
        Entities |-> <<>>]>>}

ResponseEntities ==
    [Handle : EntityHandles, Roles : {<<r>> : r \in EntityRoles},
     VCardArray : VCardArrays, Entities : NestedEntities]

NetworkNames ==
    {<<>>, <<"B", "T", "X">>, <<"B", "T", "-", "C">>, <<"U", "K", "-", "B", "T">>,
     <<"B", "-", "M", "N", "T">>}

ResponseRemarks ==
    {<<>>, <<[Description |-> <<<<" ">>, <<" ", "T", "B", "S">>>>]>>}

InitParse ==
    /\ IndexOpen
    /\ ConcIdle
    /\ PoolIdle
    /\ RipeIdle
    /\ ArinIdle
    /\ PickIdle
    /\ resolved = [op |-> "none"]
    /\ RdapIdle
    /\ CodecIdle
    /\ dedup = [pc |-> "idle"]
    /\ asnStore = <<>>
    /\ builds = 0
    /\ geo = [pc |-> "idle"]
    /\ \E entities \in SeqsUpTo(ResponseEntities, MaxEntities),
          name \in NetworkNames, remarks \in ResponseRemarks :
          parsed = [pc |-> "call",
                    response |-> [Entities |-> entities, Name |-> name,
                                  Remarks |-> remarks]]

\* ParseOrg on the response of a query
RunParseOrg ==
    /\ parsed.pc = "call"
    /\ parsed' = [pc |-> "done", response |-> parsed.response,
                  org |-> ParseOrgResponse(parsed.response)]
    /\ UNCHANGED <<dedup, asnStore, builds, geo, notFn>>

NextParse == RunParseOrg

SpecParse == InitParse /\ [][NextParse]_vars

\* the sources of the organisation name in the order of precedence, each
\* with the entities of the response that are the source
OrgEntities(response, role, orgOnly) ==
    {i \in DOMAIN response.Entities :
        /\ ~HasSuffix(response.Entities[i].Handle, mntSuffix)
        /\ \E k \in DOMAIN response.Entities[i].Roles :
              response.Entities[i].Roles[k] = role
        /\ orgOnly => HasPrefix(response.Entities[i].Handle, orgPrefix)}

SourceOrder ==
    <<"customer", "org_registrant", "registrant", "network_name",
      "administrative", "technical", "abuse">>

SourceEntities(response, source) ==
    IF source = "org_registrant" THEN OrgEntities(response, "registrant", TRUE)
    ELSE IF source = "network_name" THEN {}
    ELSE OrgEntities(response, source, FALSE)

SourceAvailable(response, source) ==
    IF source = "network_name" THEN hasGoodNetworkName(response)
    ELSE SourceEntities(response, source) # {}

\* the names a source offers
SourceNames(response, source) ==
    IF source = "network_name" THEN {response.Name}
    ELSE {selectedName(response.Entities[i]) : i \in SourceEntities(response, source)}

SourceLabel(source) == IF source = "org_registrant" THEN "registrant" ELSE source

(***************************************************************************)
(* Range relations used by the properties.                                 *)
(***************************************************************************)
Contains(a, b) == a.fam = b.fam /\ a.start <= b.start /\ b.end <= a.end

SameRange(a, b) == a.fam = b.fam /\ a.start = b.start /\ a.end = b.end

StrictlyContains(a, b) == Contains(a, b) /\ ~SameRange(a, b)

Intersects(a, b) == a.fam = b.fam /\ a.start <= b.end /\ b.start <= a.end

PartialOverlap(a, b) == Intersects(a, b) /\ ~Contains(a, b) /\ ~Contains(b, a)

Covering(st, fam, ip) ==
    {r \in StoredRecords(st) : r.fam = fam /\ IsInRange(ip, r.start, r.end)}

ValidInput(rec) == rec.start <= rec.end

(***************************************************************************)
(* Properties of the main index.                                           *)
(***************************************************************************)

\* C1: a PutRange of a range that strictly contains stored ranges of its
\* family (and meets no other stored range) succeeds, removes every stored
\* range it contains, and stores the new range.
C1_DeletesAllContained ==
    [][\A rec \in PutInputs :
        ( /\ PutRange(rec)
          /\ ~closed
          /\ ValidInput(rec)
          /\ \E r \in StoredRecords(store) : StrictlyContains(rec, r)
          /\ \A r \in StoredRecords(store) :
                Intersects(rec, r) => StrictlyContains(rec, r) )
        => ( /\ res'.err = Nil
             /\ rec \in StoredRecords(store')
             /\ \A r \in StoredRecords(store) :
                   StrictlyContains(rec, r) => r \notin StoredRecords(store') )
      ]_vars

\* C2: once B, strictly containing a stored A, has been written, GetByIP of
\* every address of A returns B's record.
C2_LookupReturnsContainer ==
    [][\A rec \in PutInputs :
        ( /\ PutRange(rec)
          /\ res'.err = Nil
          /\ \E a \in StoredRecords(store) : StrictlyContains(rec, a) )
        => \A a \in StoredRecords(store) :
              StrictlyContains(rec, a) =>
                 \A ip \in a.start..a.end :
                    GetByIP(store', meta', closed', a.fam, ip)
                       = [err |-> Nil, rec |-> rec]
      ]_vars

\* C3: in every state reached through PutRange calls, GetByIP returns a
\* covering record of smallest end - start, and NotFound only when no stored
\* record covers the address.
C3_MostSpecificCovering ==
    ~closed =>
       \A fam \in Families, ip \in Addrs :
          LET g == GetByIP(store, meta, closed, fam, ip)
              cov == Covering(store, fam, ip)
          IN  IF cov = {} THEN g.err = ErrNotFound
              ELSE /\ g.err = Nil
                   /\ g.rec \in cov
                   /\ \A r \in cov : g.rec.end - g.rec.start <= r.end - r.start

\* C6: a PutRange of a range strictly contained in a stored range of its
\* family is rejected as covered by a less specific range, and stores nothing.
C6_RejectsCovered ==
    [][\A rec \in PutInputs :
        ( /\ PutRange(rec)
          /\ ~closed
          /\ ValidInput(rec)
          /\ \E r \in StoredRecords(store) : StrictlyContains(r, rec) )
        => ( res'.err = ErrOverlapCovered /\ store' = store )
      ]_vars

\* C7: a PutRange of a range that crosses a stored range of its family,
\* neither containing the other, is rejected as an overlap conflict.
C7_RejectsPartialOverlap ==
    [][\A rec \in PutInputs :
        ( /\ PutRange(rec)
          /\ ~closed
          /\ ValidInput(rec)
          /\ \E r \in StoredRecords(store) : PartialOverlap(rec, r)
          /\ \A r \in StoredRecords(store) : ~Contains(r, rec) )
        => ( res'.err = ErrOverlapConflict /\ store' = store )
      ]_vars

\* C8: once the index is closed, IsClosed answers true and every other
\* operation, iteration included, fails with ErrDatabaseClosed.
ClosedOps ==
    {"Get", "Put", "Delete", "WriteBatch", "GetByIP",
     "NewIterator", "IterateRanges", "CountRanges"}

C8_ClosedFailsEverything ==
    [][closed =>
         /\ res'.op \in ClosedOps => res'.err = ErrDatabaseClosed
         /\ \A rec \in PutInputs :
               PutRange(rec) /\ ValidInput(rec) => res'.err = ErrDatabaseClosed
         /\ res'.op = "IsClosed" => res'.val = TRUE
      ]_vars

\* a PutRange that has deleted the record it replaces and has not yet
\* stored its own
HalfApplied(p, pl, t) == p[t] \in {"put", "putting"} /\ pl[t].del # NoKey

\* Close holds DB.mu exclusively while it closes the store, so no Put or
\* Delete is inside its critical section at that moment, and nothing changes
\* the store once Close has returned.
CloseDrainsCriticalSections ==
    [][/\ dbClosed' => \A t \in Writers : pc'[t] \notin InWrite
       /\ pc[Closer] = "done" => store' = store]_vars

\* C9: Close waits for every write in flight on the main index before it
\* closes the underlying store: when the store is closed no Put or Delete is
\* inside its critical section and no PutRange is left with its delete
\* applied and its put outstanding; and once Close has returned the store
\* does not change.
C9_CloseWaitsForWrites ==
    [][/\ dbClosed' => \A t \in Writers : /\ pc'[t] \notin InWrite
                                          /\ ~HalfApplied(pc', plan', t)
       /\ pc[Closer] = "done" => store' = store]_vars

\* C5: every record written by the orchestrator, in Mode A and in Mode B,
\* has a non-empty organisation name, whatever the sources answered.
C5_OrgNameNonEmpty == \A r \in StoredRecords(store) : r.org # <<>>

\* the range of a prefix of the work list
WorkRange(p) == [fam |-> p.fam, start |-> CIDRToRange(p).start, end |-> CIDRToRange(p).end]

\* the task of work[i] has run its PutRange
HasRun(t, i) == t[i] \in {"send", "done"} /\ [index |-> i, err |-> ErrCanceled] \notin
                   {results[k] : k \in DOMAIN results} \cup {collected[k] : k \in DOMAIN collected}

\* C4: in every interleaving of the pool, when the work list holds a prefix
\* P and a prefix C strictly contained in P, the task of C runs its PutRange
\* only after the task of P has run its own.
C4_ParentWrittenFirst ==
    [][\A c \in DOMAIN tpc :
         (tpc[c] = "run" /\ tpc'[c] = "send") =>
           \A p \in DOMAIN tpc :
             StrictlyContains(WorkRange(work[p]), WorkRange(work[c])) => HasRun(tpc, p)]_vars

\* the inetnums of the index
RipeInetnums == {InetAt(ripeDb, k) : k \in DOMAIN ripeDb}

\* the stored inetnums covering an address
RipeCovering(ip) == {i \in RipeInetnums : i.start <= ip /\ ip <= i.end}

\* the covering inetnums the backward scan can reach: those starting no
\* more than 2^24 addresses before the query
RipeReachable(ip) == {i \in RipeCovering(ip) : ip - i.start <= earlyExitDistance}

SmallestOf(S) == CHOOSE i \in S : \A j \in S : i.end - i.start <= j.end - j.start

\* C10 as stated: a lookup of any address returns the covering inetnum with
\* the smallest end - start.
C10_SmallestCovering ==
    (match.op = "LookupIP" /\ RipeCovering(match.qs) # {}) =>
        LET m == SmallestOf(RipeCovering(match.qs)) IN
        /\ match.err = Nil
        /\ match.found
        /\ match.start = m.start /\ match.end = m.end

\* C10 amended: in an index of at most maxBackwardScan nested inetnums, a
\* lookup of an address considers the covering inetnums that start at most
\* 2^24 addresses before it.  With none, the lookup fails with not-found;
\* otherwise the smallest of them is chosen, and it is returned unless its
\* netname is the placeholder, in which case the lookup returns no match.
C10_SmallestReachable ==
    (match.op = "LookupIP" /\ Cardinality(DOMAIN ripeDb) <= maxBackwardScan) =>
        IF RipeReachable(match.qs) = {}
        THEN match.err = RipeErrNotFound /\ ~match.found
        ELSE LET m == SmallestOf(RipeReachable(match.qs)) IN
             /\ match.err = Nil
             /\ IF m.netname = PlaceholderNetname
                THEN ~match.found
                ELSE match.found /\ match.start = m.start /\ match.end = m.end

\* a lookup answered with the child of two inetnums sharing their start
C10_Witness ==
    /\ match.op = "LookupIP"
    /\ match.found
    /\ \E i \in RipeCovering(match.qs) :
         /\ i.start = match.start
         /\ i.end > match.end

\* the net blocks of the ARIN index that cover an address
ArinCovering(ip) == {NetAt(k) : k \in {x \in arinDb : x[1] <= ip /\ ip <= x[2]}}

(***************************************************************************)
(* C11: in an ARIN index built from nested net blocks, a lookup of an      *)
(* address that at least one stored block covers returns the covering      *)
(* block with the smallest end - start.                                    *)
(***************************************************************************)
C11_ArinSmallestCovering ==
    (arinMatch.op = "LookupIP" /\ ArinCovering(arinMatch.qs) # {}) =>
        LET m == SmallestOf(ArinCovering(arinMatch.qs)) IN
        /\ arinMatch.err = Nil
        /\ arinMatch.found
        /\ arinMatch.start = m.start
        /\ arinMatch.end = m.end

(***************************************************************************)
(* C12: for an IPv4 prefix with no match in the RIPE bulk index, when an    *)
(* ARIN bulk index is configured and answers with a non-empty org name     *)
(* (one that passed the valid-org-name filter), the record to be written   *)
(* carries that name, RIR ARIN and source-role arin_bulk.                  *)
(***************************************************************************)
C12_ArinBulkUsed ==
    (/\ picked.mode # "none"
     /\ picked.fam = 4
     /\ RipeBulkOrg(picked.fam, picked.out).nil
     /\ ~tryARINBulkLookup(picked.fam, picked.out.arin).nil
     /\ tryARINBulkLookup(picked.fam, picked.out.arin).name # <<>>) =>
        /\ picked.org = CleanOrgName(tryARINBulkLookup(picked.fam, picked.out.arin).name)
        /\ picked.rir = "ARIN"
        /\ picked.role = "arin_bulk"

\* the remarks of an inetnum that pass the filter, in their order
ValidRemarks(inet) ==
    SelectSeq(inet.remarks, LAMBDA r : isValidOrgRemark(Trim(r, {" "})))

(***************************************************************************)
(* C13: the organisation name of a RIPE match is the first available of:   *)
(* the non-empty org-name of the organisation its org handle resolves to;  *)
(* its descr when descr passes the valid-org-remark filter; its first      *)
(* remark that passes the filter; its netname when non-empty; "no org".    *)
(* descr and remarks are taken without their surrounding blanks.           *)
(***************************************************************************)
C13_OrgNameFallback ==
    resolved.op = "lookupRange" =>
        LET inet == resolved.inet
            org == resolved.org
        IN  resolved.orgName =
              IF inet.hasOrgId /\ ~org.err /\ org.name # <<>> THEN org.name
              ELSE IF isValidOrgRemark(Trim(inet.descr, {" "})) THEN Trim(inet.descr, {" "})
              ELSE IF ValidRemarks(inet) # <<>> THEN Trim(Head(ValidRemarks(inet)), {" "})
              ELSE IF inet.netname # <<>> THEN inet.netname
              ELSE NoOrgName

\* the last lookup went upstream and its last request was answered with st
LastAnswer(st) ==
    /\ reply.op = "OrgForPrefix"
    /\ reply.tries # <<>>
    /\ reply.tries[Len(reply.tries)] = st

\* the last lookup went upstream and every attempt was answered with 429
RateLimitedOut ==
    /\ reply.op = "OrgForPrefix"
    /\ reply.tries = [i \in 1..defaultMaxAttempts |-> "429"]

\* the cache holds an entry for the prefix that is younger than the TTL
FreshEntry(prefix) ==
    /\ NormalizePrefix(prefix) \in DOMAIN rdapCache
    /\ now - rdapCache[NormalizePrefix(prefix)].fetchedAt < cacheTTL

(***************************************************************************)
(* C14: when the cache holds an entry for the prefix that is older than    *)
(* the TTL and the upstream lookup is rate limited, the cached client      *)
(* returns the stale cached value and no error.                            *)
(***************************************************************************)
C14_StaleOnRateLimit ==
    (RateLimitedOut /\ ~reply.stale.nil) =>
        /\ reply.err = NoErr
        /\ ~reply.nil
        /\ reply.org = reply.stale.org

(***************************************************************************)
(* C15: when the service answers 429 until the retry attempts are          *)
(* exhausted, the client's lookup fails with the RateLimited error itself, *)
(* the value its callers compare the error with.                           *)
(***************************************************************************)
C15_RateLimitedSurfaces ==
    RateLimitedOut =>
        /\ reply.client.nil
        /\ reply.client.err = <<ErrRateLimited>>

(***************************************************************************)
(* C16: when the service answers 404, the client's lookup returns a null   *)
(* result and no error.                                                    *)
(***************************************************************************)
C16_NotFoundIsNoData ==
    LastAnswer("404") => reply.client.nil /\ reply.client.err = NoErr

(***************************************************************************)
(* C17: while the cache holds an entry for the normalized prefix that is   *)
(* younger than the TTL, a lookup of the prefix sends no request upstream   *)
(* and returns the cached value.                                           *)
(***************************************************************************)
C17_FreshHitNoUpstream ==
    [][call.pc = "idle" =>
         /\ call'.pc # "idle" => ~FreshEntry(call'.input)
         /\ (call'.pc = "idle" /\ reply' # reply /\ FreshEntry(reply'.input)) =>
               /\ reply'.hit
               /\ reply'.tries = <<>>
               /\ reply'.err = NoErr
               /\ reply'.org = rdapCache[NormalizePrefix(reply'.input)].org]_vars

\* a lookup answered from the entry another spelling of the prefix cached
C17_Witness ==
    /\ reply.op = "OrgForPrefix"
    /\ reply.hit
    /\ reply.input # NormalizePrefix(reply.input)

\* fn's invocations of the lookup under way that failed
FailedTry(i) == call.tries[i] \notin {"200", "404"}

(***************************************************************************)
(* C18: Retry invokes the operation at most MaxAttempts (3) times, never   *)
(* after an invocation has succeeded, and never after the context was      *)
(* cancelled during a backoff wait.                                        *)
(***************************************************************************)
C18_RetryBounded ==
    /\ [](call.pc # "idle" =>
            /\ Len(call.tries) <= defaultMaxAttempts
            /\ \A i \in 1..(Len(call.tries) - 1) : FailedTry(i))
    /\ [][(call.pc = "backoff" /\ ctxDone) =>
            (call'.pc \in {"backoff", "finish"} /\ call'.tries = call.tries)]_vars

\* Retry gave up after the last attempt
C18_Witness ==
    /\ call.pc = "finish"
    /\ Len(call.tries) = defaultMaxAttempts
    /\ FailedTry(defaultMaxAttempts)

(***************************************************************************)
(* Claims about the range-to-CIDR conversion.                              *)
(***************************************************************************)
\* the call is at its entry with a range whose start is not above its end
ValidRangeCall == conv.pc = "call" /\ conv.start <= conv.end

\* the CIDRs of the list are pairwise disjoint
CidrsDisjoint(cidrs) ==
    \A i, j \in 1..Len(cidrs) :
        i # j => CidrAddrs(cidrs[i]) \cap CidrAddrs(cidrs[j]) = {}

\* the addresses the CIDRs of the list contain
CidrsUnion(cidrs) == UNION {CidrAddrs(cidrs[i]) : i \in 1..Len(cidrs)}

\* the list is an exact partition of the range the call was given
ExactCover ==
    /\ ~conv.more
    /\ CidrsDisjoint(conv.cidrs)
    /\ CidrsUnion(conv.cidrs) = conv.start..conv.end

\* C19: rangeToCIDRsV4 terminates and returns a finite list of CIDRs for
\* every range with start <= end, the ranges that end at the top address
\* (255.255.255.255) and the full range included.
C19_RangeToCidrsTerminates ==
    ValidRangeCall ~> (conv.pc = "returned" /\ ~conv.more)

\* C20: for every range with start <= end the CIDRs rangeToCIDRsV4 returns
\* are pairwise disjoint and their union is exactly the addresses from start
\* to end.
C20_DisjointExactUnion ==
    ValidRangeCall ~> (conv.pc = "returned" /\ ExactCover)

\* whenever rangeToCIDRsV4 returns, its list is an exact partition of the
\* range; a call whose range ends below the top address always returns
CidrReturnedExact == conv.pc = "returned" => ExactCover

CidrBelowTopReturns ==
    (ValidRangeCall /\ conv.end < MaxUint) ~> (conv.pc = "returned")

(***************************************************************************)
(* Claims about overlapping records of the main index.                     *)
(***************************************************************************)
\* the ranges of two records of one family share an address and differ
Intersecting(a, b) ==
    /\ a.fam = b.fam
    /\ a.start <= b.end
    /\ b.start <= a.end
    /\ ~(a.start = b.start /\ a.end = b.end)

\* the record is stored under its start key with its end
IsStored(st, rec) ==
    LET k == EncodeRangeKey(rec.fam, rec.start)
    IN  k \in DOMAIN st /\ st[k].end = rec.end

\* C25: two concurrent PutRange calls for intersecting, non-identical ranges
\* never both succeed and leave both ranges stored: the overlap check and
\* the write of a call act as one step with respect to the other call.
C25_PutRangeAtomic ==
    \A t, u \in Writers :
        (/\ t # u
         /\ pc[t] = "done" /\ pc[u] = "done"
         /\ ret[t] = Nil /\ ret[u] = Nil
         /\ Intersecting(job[t], job[u]))
        => ~(IsStored(store, job[t]) /\ IsStored(store, job[u]))

\* C26: after any sequence of PutRange calls, accepted or rejected, no two
\* records stored for one address family have intersecting ranges.
C26_StoredRangesDisjoint ==
    \A a, b \in StoredRecords(store) : ~Intersecting(a, b)

(***************************************************************************)
(* Claims about the worker pool.                                           *)
(***************************************************************************)
\* the tasks that hold a worker slot: the task is running, or has run and
\* its goroutine has not yet released the semaphore
Executing == {i \in DOMAIN tpc : tpc[i] \in {"run", "send"}}

\* C27: at no time are more tasks executing in the pool than the pool has
\* workers, however many tasks have been submitted.
C27_AtMostWorkersExecuting == Cardinality(Executing) <= workers

\* every worker is busy while a submitted task waits for a slot
C27_Witness ==
    /\ Cardinality({i \in DOMAIN tpc : tpc[i] = "run"}) = workers
    /\ \E i \in DOMAIN tpc : tpc[i] = "acquire"

\* the results Wait has collected for task i
ResultsOf(i) == {k \in DOMAIN collected : collected[k].index = i}

\* every submitted task terminates: no task stays running for ever
TasksTerminate == []<>(\A i \in DOMAIN tpc : tpc[i] # "run")

\* C28: if every submitted task terminates, Wait terminates and returns
\* exactly one result for each task submitted before it, whatever the number
\* of tasks relative to the workers and to the buffer of the results channel.
C28_WaitReturnsEveryResult ==
    TasksTerminate =>
        /\ <>(mainPc = "done")
        /\ [](mainPc = "done" =>
                /\ Len(collected) = Len(work)
                /\ \A i \in 1..Len(work) : Cardinality(ResultsOf(i)) = 1)

\* Wait has returned the results of more tasks than the results channel holds
C28_Witness ==
    /\ mainPc = "done"
    /\ Len(work) > 2 * workers
    /\ Len(collected) = Len(work)

\* C29: after Stop no task that has not yet acquired a worker slot is
\* executed; each such task ends with the cancellation error as its result.
C29_StopCancelsPending ==
    [][\A i \in DOMAIN tpc :
          (cancelled /\ tpc[i] = "acquire") => tpc'[i] \in {"acquire", "abort"}]_vars

(***************************************************************************)
(* Claims about the rate limiter of the RDAP client.                       *)
(***************************************************************************)
\* C30: every request the RDAP client sends upstream, each retry attempt of
\* a query included, is preceded by acquiring its own token from the client's
\* rate limiter: a query never has sent more requests than it holds tokens.
C30_TokenPerRequest ==
    call.pc # "idle" => Len(call.tries) <= call.tokens

\* the elements of a list that no earlier element equals in CIDR and ASN
RECURSIVE FirstOccurrencesFrom(_, _)
FirstOccurrencesFrom(input, i) ==
    IF i > Len(input) THEN <<>>
    ELSE (IF \E j \in 1..(i - 1) : FullKey(input[j]) = FullKey(input[i])
          THEN <<>> ELSE <<input[i]>>)
         \o FirstOccurrencesFrom(input, i + 1)

\* C22: Deduplicate removes an element if and only if an earlier element has
\* the same CIDR string and the same ASN, whatever the ASN; elements with one
\* CIDR and different ASNs are all kept
C22_DeduplicateKeysOnFullASN ==
    dedup.pc = "done" => dedup.result = FirstOccurrencesFrom(dedup.input, 1)

\* C21: after a build, for every ASN present in the store the collapsed list
\* of the ASN covers the same addresses as its raw list
C21_CollapsedCoversRaw ==
    builds > 0 =>
        \A asn \in ListASNs(asnStore) :
            Coverage(ListByASN(asnStore, asn, TRUE))
                = Coverage(ListByASN(asnStore, asn, FALSE))

\* the same after the first build into an empty database
FirstBuildCovers ==
    builds = 1 =>
        \A asn \in ListASNs(asnStore) :
            Coverage(ListByASN(asnStore, asn, TRUE))
                = Coverage(ListByASN(asnStore, asn, FALSE))

\* C23 as stated: in the block list of a prefix no two blocks adjacent in
\* address space have the same (country, region, city)
C23_NoAdjacentSharesGeo ==
    geo.pc = "done" =>
        \A i, j \in DOMAIN geo.blocks :
            AdjacentBlocks(geo.blocks[i], geo.blocks[j])
                => ~sameGeo(geo.blocks[i], geo.blocks[j])

\* C23: in the block list of a prefix every block is a valid single prefix,
\* and no two blocks that are adjacent in address space and whose union is a
\* valid single prefix have the same (country, region, city)
C23_NoMergeablePairSharesGeo ==
    geo.pc = "done" =>
        /\ \A i \in DOMAIN geo.blocks : ValidSinglePrefix(geo.blocks[i].Prefix)
        /\ \A i, j \in DOMAIN geo.blocks :
              (/\ AdjacentBlocks(geo.blocks[i], geo.blocks[j])
               /\ UnionIsPrefix(geo.blocks[i], geo.blocks[j]))
                  => ~sameGeo(geo.blocks[i], geo.blocks[j])

\* a split that merged two halves and kept two adjacent blocks of one
\* geography that are no halves of one prefix
C23_Witness ==
    /\ geo.pc = "done"
    /\ \E i \in DOMAIN geo.blocks : geo.blocks[i].Prefix.bits < geo.minPrefixLen
    /\ \E i, j \in DOMAIN geo.blocks :
          /\ AdjacentBlocks(geo.blocks[i], geo.blocks[j])
          /\ sameGeo(geo.blocks[i], geo.blocks[j])

\* the blocks of a split partition the prefix
GeoBlocksPartition ==
    geo.pc = "done" =>
        /\ UNION {BlockAddrs(geo.blocks[i]) : i \in DOMAIN geo.blocks}
              = BlockAddrs([Prefix |-> geo.prefix])
        /\ \A i, j \in DOMAIN geo.blocks :
              i # j => BlockAddrs(geo.blocks[i]) \cap BlockAddrs(geo.blocks[j]) = {}

\* the first source of the precedence order that the response offers, when
\* every entity of that source carries a name
FirstSource(response, k) ==
    /\ SourceAvailable(response, SourceOrder[k])
    /\ \A j \in 1..(k - 1) : ~SourceAvailable(response, SourceOrder[j])
    /\ <<>> \notin SourceNames(response, SourceOrder[k])

FromSource(org, response, k) ==
    /\ org.err = "nil"
    /\ org.OrgName \in SourceNames(response, SourceOrder[k])
    /\ org.SourceRole = SourceLabel(SourceOrder[k])

\* C24: ParseOrg takes the organization name from the first available source
\* in the order customer entity, registrant entity with an ORG- handle, any
\* registrant entity, good network name, administrative entity, technical
\* entity, abuse entity; a later source is never used when an earlier one is
\* available
C24_ParseOrgPrecedence ==
    parsed.pc = "done" =>
        \A k \in DOMAIN SourceOrder :
            FirstSource(parsed.response, k) => FromSource(parsed.org, parsed.response, k)

\* the same for the responses whose remarks hold no line
PrecedenceWithoutRemarks ==
    (parsed.pc = "done" /\ extractOrgFromRemarks(parsed.response.Remarks) = <<>>) =>
        \A k \in DOMAIN SourceOrder :
            FirstSource(parsed.response, k) => FromSource(parsed.org, parsed.response, k)

====
